---- MODULE Spec2Model ----
(***************************************************************************)
(* A model of the DeXAcademy core.                                         *)
(*                                                                         *)
(* Part 1: the API key pool (src/services/apiKeyManager.ts): rotation,     *)
(* circuit breaker, cooldown windows and the persisted rotation state.     *)
(* Time is Date.now() in milliseconds; several calls may read the same     *)
(* millisecond.  A manager instance lives in one execution context (tab);  *)
(* all instances share one storage slot.                                   *)
(*                                                                         *)
(* Part 2: the retry wrapper callGeminiWithRetry and the response parser   *)
(* extractImageFromResponse (src/services/geminiService.ts).               *)
(***************************************************************************)
EXTENDS Integers, Sequences, FiniteSets, TLC

VARIABLES
    keys,         \* keys[i]: the KeyState[] array of manager instance i
    storage,      \* the parsed JSON object in slot 'api_rotation_state' (empty: no item)
    now,          \* Date.now()
    lastOp,       \* history: the last call made and what it returned
    run,          \* history: the latest calls of the sequence a property follows (getKey() results; commit, commit, undo, redo)
    grants,       \* history: grants[k] = getKey() calls that returned k while HALF_OPEN, since k's last outcome
    quotaFailed,  \* history: quotaFailed[k] = markFailed(k, true) was reported and no markSuccess(k) since
    calls,        \* calls[c]: the callGeminiWithRetry invocation of caller c (position, locals, history)
    extraction,   \* a response handed to extractImageFromResponse, and what the call gave
    wallet,       \* GlobalStateProvider's credits, the stored profile, the AI operations in flight
    studio,       \* a StudioScreen session: useStudioState, the asset set, the gesture
    capture       \* a capture of TryOnScreen: the sizes of frame and viewport, the crop computed

vars == <<keys, storage, now, lastOp, run, grants, quotaFailed, calls, extraction, wallet, studio, capture>>

--------------------------------------------------------------------------
(* Bounds of the model *)

MaxClock == 2          \* the clock is read at instants 0..MaxClock of the sampled time line
MaxRequests == 5       \* outcomes (markSuccess/markFailed) reported to a pool of one key
MaxPoolRequests == 2   \* outcomes reported to a pool of several keys
MaxTabRequests == 2    \* outcomes reported by two tabs together
MaxTabClock == 1       \* the two tabs read the clock at instants 0..MaxTabClock
MaxCalls == 2          \* callGeminiWithRetry invocations started by all callers together
MaxParts == 2          \* parts of a response candidate
MaxHistory == 3        \* snapshots in the history of a Studio session
MaxMarked == 2         \* non-empty snapshots in the history of the history-stack sessions
MaxElapsed == 1000     \* milliseconds of a gesture session
MaxNotches == 2        \* wheel notches between two commits of the timer
MaxPresses == 2        \* pointer-downs on the layers of a gesture session
MaxSide == 4           \* width and height of the small frames and viewports of a capture

(* Program constants: CONFIG *)

MAX_CONSECUTIVE_FAILURES == 5
COOLDOWN_TRANSIENT == 60 * 1000
COOLDOWN_QUOTA == 5 * 60 * 1000
HALF_OPEN_TEST_DELAY == 60 * 1000

(* KeyState.failedAt / halfOpenTestTime: number | null *)
null == -1

Instances == {"A", "B"}
KeyNames == {"k1", "k2"}
UnknownKey == "zz"

(* The configured lists the constructor may be given: duplicates and empty
   strings included. *)
InitialKeyLists == { <<>>, <<"k1", "k1">>, <<"k1", "", "k2">> }

StartTime == COOLDOWN_TRANSIENT
(* The instants at which Date.now() is read: the start, one transient
   cooldown later, one quota cooldown later, one transient cooldown after
   that, and so on (0, 1, 5, 6, 10, 11, ... minutes after the start). *)
InstantAt(n) == StartTime + (n \div 2) * COOLDOWN_QUOTA + (n % 2) * COOLDOWN_TRANSIENT

Instants == { InstantAt(n) : n \in 0..MaxClock }

--------------------------------------------------------------------------
(* Helpers *)

(* JavaScript truthiness of a number | null *)
Truthy(x) == x # null /\ x # 0

Range(s) == { s[n] : n \in 1..Len(s) }

IndexOf(ks, key) ==
    IF \E n \in 1..Len(ks) : ks[n].key = key
    THEN CHOOSE n \in 1..Len(ks) : ks[n].key = key
    ELSE 0

--------------------------------------------------------------------------
(* constructor *)

RECURSIVE Dedupe(_)
Dedupe(s) ==
    IF s = <<>> THEN <<>>
    ELSE LET front == Dedupe(SubSeq(s, 1, Len(s) - 1))
             x == s[Len(s)]
         IN IF x \in Range(front) THEN front ELSE Append(front, x)

UniqueKeys(initialKeys) == SelectSeq(Dedupe(initialKeys), LAMBDA k : k # "")

NewKeyState(k) ==
    [ key |-> k, failCount |-> 0, failedAt |-> null, isQuotaError |-> FALSE,
      circuitState |-> "CLOSED", lastUsed |-> 0, successCount |-> 0,
      totalRequests |-> 0, halfOpenTestTime |-> null ]

--------------------------------------------------------------------------
(* saveState / loadState.  JSON.stringify and JSON.parse keep the six saved
   fields (integers, booleans, strings, null) as they are; the counters
   successCount and totalRequests are not saved. *)

Persisted(k) ==
    [ failCount |-> k.failCount, circuitState |-> k.circuitState,
      lastUsed |-> k.lastUsed, failedAt |-> k.failedAt,
      halfOpenTestTime |-> k.halfOpenTestTime, isQuotaError |-> k.isQuotaError ]

saveState(ks) ==
    [ key \in { ks[n].key : n \in 1..Len(ks) } |-> Persisted(ks[IndexOf(ks, key)]) ]

Assign(k, d) ==
    [ k EXCEPT !.failCount = d.failCount, !.circuitState = d.circuitState,
               !.lastUsed = d.lastUsed, !.failedAt = d.failedAt,
               !.halfOpenTestTime = d.halfOpenTestTime,
               !.isQuotaError = d.isQuotaError ]

loadState(ks, st) ==
    [ n \in 1..Len(ks) |->
        IF ks[n].key \in DOMAIN st THEN Assign(ks[n], st[ks[n].key]) ELSE ks[n] ]

--------------------------------------------------------------------------
(* isOnCooldown: its result, and the key state it leaves behind (the
   OPEN -> HALF_OPEN transition is made inside the check). *)

(* mutant: the retry deadline is not compared with the clock *)
ReadyForHalfOpen_NoDeadline(k, t) ==
    k.circuitState = "OPEN" /\ Truthy(k.halfOpenTestTime)

ReadyForHalfOpen(k, t) ==
    k.circuitState = "OPEN" /\ Truthy(k.halfOpenTestTime) /\ t >= k.halfOpenTestTime

CooldownWindow(k) == IF k.isQuotaError THEN COOLDOWN_QUOTA ELSE COOLDOWN_TRANSIENT

isOnCooldown(k, t) ==
    IF k.circuitState = "OPEN"
    THEN ~ReadyForHalfOpen(k, t)
    ELSE Truthy(k.failedAt) /\ t - k.failedAt < CooldownWindow(k)

afterCooldownCheck(k, t) ==
    IF ReadyForHalfOpen(k, t) THEN [k EXCEPT !.circuitState = "HALF_OPEN"] ELSE k

checkAll(ks, t) == [ n \in 1..Len(ks) |-> afterCooldownCheck(ks[n], t) ]

--------------------------------------------------------------------------
(* getKey *)

(* candidates: the indices that pass the filter, in array order *)
Candidates(ks, t) == { n \in 1..Len(ks) : ~isOnCooldown(ks[n], t) }

(* compare function of the candidate sort: < 0, = 0, > 0 *)
CandidateCompare(a, b) ==
    IF a.failCount # b.failCount THEN a.failCount - b.failCount
    ELSE a.lastUsed - b.lastUsed

FailedAtOrZero(k) == IF Truthy(k.failedAt) THEN k.failedAt ELSE 0

(* mutant: the fallback sorts the newest failure first *)
FallbackCompare_Newest(a, b) == FailedAtOrZero(b) - FailedAtOrZero(a)

FallbackCompare(a, b) == FailedAtOrZero(a) - FailedAtOrZero(b)

(* Array.prototype.sort is stable: element [0] of the sorted array is the
   first, in array order, of the elements no other element sorts before. *)
FirstSorted(idx, cmp) ==
    CHOOSE n \in idx :
        /\ \A m \in idx : cmp[m, n] >= 0
        /\ \A m \in idx : (cmp[m, n] = 0) => n <= m

Selected(ks, t) ==
    LET checked == checkAll(ks, t)
    IN  FirstSorted(Candidates(ks, t),
                    [ m \in 1..Len(ks), n \in 1..Len(ks) |->
                        CandidateCompare(checked[m], checked[n]) ])

Fallback(ks) ==
    FirstSorted(1..Len(ks),
                [ m \in 1..Len(ks), n \in 1..Len(ks) |-> FallbackCompare(ks[m], ks[n]) ])

(* mutant: no candidate, no key *)
FallbackKey_Null(ks) == "null"

(* [...this.keys].sort(...)[0]?.key || null, on a non-empty array of
   non-empty keys *)
FallbackKey(ks) == ks[Fallback(ks)].key

(* history bookkeeping: the last Len(pool) keys returned, and a capped count *)
Recent(r, ret, n) ==
    LET a == Append(r, ret)
    IN  IF Len(a) > n THEN SubSeq(a, Len(a) - n + 1, Len(a)) ELSE a

Granted(g, k) == IF k.circuitState = "HALF_OPEN" /\ g < 2 THEN g + 1 ELSE g

NoOp == [ op |-> "init", inst |-> "A", key |-> "", mode |-> "" ]

Called(op, i, key, mode) == [ op |-> op, inst |-> i, key |-> key, mode |-> mode ]

(* getKey's three exits: the empty pool (null), the desperation fallback
   (nothing stamped, nothing saved), the selected candidate. *)
GetKey(i) ==
    LET loaded == loadState(keys[i], storage)
        cands == Candidates(loaded, now)
        checked == checkAll(loaded, now)
    IN  IF Len(loaded) = 0 THEN
            /\ keys' = [keys EXCEPT ![i] = loaded]
            /\ lastOp' = Called("getKey", i, "null", "empty")
            /\ UNCHANGED <<storage, now, grants, quotaFailed>>
        ELSE IF cands = {} THEN
            LET ret == FallbackKey(checked)
            IN  /\ keys' = [keys EXCEPT ![i] = checked]
                /\ lastOp' = Called("getKey", i, ret, "fallback")
                /\ grants' = IF ret \in DOMAIN grants
                              THEN [grants EXCEPT ![ret] = Granted(@, checked[IndexOf(checked, ret)])]
                              ELSE grants
                /\ UNCHANGED <<storage, now, quotaFailed>>
        ELSE
            LET sel == Selected(loaded, now)
                after == [checked EXCEPT ![sel].lastUsed = now]
                ret == after[sel]
            IN  /\ keys' = [keys EXCEPT ![i] = after]
                /\ storage' = saveState(after)
                /\ lastOp' = Called("getKey", i, ret.key, "selected")
                /\ grants' = [grants EXCEPT ![ret.key] = Granted(@, ret)]
                /\ UNCHANGED <<now, quotaFailed>>

--------------------------------------------------------------------------
(* getPoolStatus: maps isOnCooldown over the in-memory keys; nothing is
   loaded and nothing is saved. *)

GetPoolStatus(i) ==
    /\ keys' = [keys EXCEPT ![i] = checkAll(keys[i], now)]
    /\ lastOp' = Called("getPoolStatus", i, "", "")
    /\ UNCHANGED <<storage, now, grants, quotaFailed>>

--------------------------------------------------------------------------
(* markSuccess / markFailed *)

(* mutant: the failure time survives a success *)
succeeded_KeepsFailedAt(k) ==
    [ k EXCEPT !.circuitState = "CLOSED", !.failCount = 0,
               !.isQuotaError = FALSE, !.successCount = @ + 1,
               !.totalRequests = @ + 1 ]

succeeded(k) ==
    [ k EXCEPT !.circuitState = "CLOSED", !.failCount = 0, !.failedAt = null,
               !.isQuotaError = FALSE, !.successCount = @ + 1,
               !.totalRequests = @ + 1 ]

(* mutant: the threshold is compared with > instead of >= *)
failed_StrictThreshold(k, isQuota, t) ==
    LET f == [ k EXCEPT !.failedAt = t, !.failCount = @ + 1,
                        !.totalRequests = @ + 1, !.isQuotaError = isQuota ]
    IN  IF k.circuitState = "HALF_OPEN" THEN
            [ f EXCEPT !.circuitState = "OPEN",
                       !.halfOpenTestTime = t + HALF_OPEN_TEST_DELAY ]
        ELSE IF f.failCount > MAX_CONSECUTIVE_FAILURES \/ isQuota THEN
            [ f EXCEPT !.circuitState = "OPEN",
                       !.halfOpenTestTime =
                           t + (IF isQuota THEN COOLDOWN_QUOTA ELSE HALF_OPEN_TEST_DELAY) ]
        ELSE f

(* mutant: the circuit opens at the threshold without a retry deadline *)
failed_NoDeadline(k, isQuota, t) ==
    LET f == [ k EXCEPT !.failedAt = t, !.failCount = @ + 1,
                        !.totalRequests = @ + 1, !.isQuotaError = isQuota ]
    IN  IF k.circuitState = "HALF_OPEN" THEN
            [ f EXCEPT !.circuitState = "OPEN",
                       !.halfOpenTestTime = t + HALF_OPEN_TEST_DELAY ]
        ELSE IF f.failCount >= MAX_CONSECUTIVE_FAILURES \/ isQuota THEN
            [ f EXCEPT !.circuitState = "OPEN" ]
        ELSE f

failed(k, isQuota, t) ==
    LET f == [ k EXCEPT !.failedAt = t, !.failCount = @ + 1,
                        !.totalRequests = @ + 1, !.isQuotaError = isQuota ]
    IN  IF k.circuitState = "HALF_OPEN" THEN
            [ f EXCEPT !.circuitState = "OPEN",
                       !.halfOpenTestTime = t + HALF_OPEN_TEST_DELAY ]
        ELSE IF f.failCount >= MAX_CONSECUTIVE_FAILURES \/ isQuota THEN
            [ f EXCEPT !.circuitState = "OPEN",
                       !.halfOpenTestTime =
                           t + (IF isQuota THEN COOLDOWN_QUOTA ELSE HALF_OPEN_TEST_DELAY) ]
        ELSE f

RECURSIVE SumRequests(_)
SumRequests(ks) ==
    IF ks = <<>> THEN 0 ELSE ks[1].totalRequests + SumRequests(Tail(ks))

RequestCap(ks) == IF Len(ks) <= 1 THEN MaxRequests ELSE MaxPoolRequests

(* the model stops reporting outcomes to instance i at the cap *)
WithinCap(i) == SumRequests(keys[i]) < RequestCap(keys[i])

MarkSuccess(i, key) ==
    LET n == IndexOf(keys[i], key)
    IN  /\ lastOp' = Called("markSuccess", i, key, "")
        /\ IF n = 0 THEN
               UNCHANGED <<keys, storage, now, grants, quotaFailed>>
           ELSE
               LET after == [keys[i] EXCEPT ![n] = succeeded(@)]
               IN  /\ keys' = [keys EXCEPT ![i] = after]
                   /\ storage' = saveState(after)
                   /\ grants' = [grants EXCEPT ![key] = 0]
                   /\ quotaFailed' = [quotaFailed EXCEPT ![key] = FALSE]
                   /\ UNCHANGED now

MarkFailed(i, key, isQuota) ==
    LET n == IndexOf(keys[i], key)
    IN  /\ lastOp' = Called("markFailed", i, key, "")
        /\ IF n = 0 THEN
               UNCHANGED <<keys, storage, now, grants, quotaFailed>>
           ELSE
               LET after == [keys[i] EXCEPT ![n] = failed(@, isQuota, now)]
               IN  /\ keys' = [keys EXCEPT ![i] = after]
                   /\ storage' = saveState(after)
                   /\ grants' = [grants EXCEPT ![key] = 0]
                   /\ quotaFailed' = [quotaFailed EXCEPT ![key] = isQuota \/ @]
                   /\ UNCHANGED now

--------------------------------------------------------------------------
(* The clock *)

Tick ==
    /\ \E t \in Instants :
          /\ t > now
          /\ now' = t
    /\ lastOp' = Called("tick", "A", "", "")
    /\ UNCHANGED <<keys, storage, grants, quotaFailed>>

--------------------------------------------------------------------------
(* callGeminiWithRetry: the locals of one invocation.  pc is the position:
   "idle" (not called), "loop" (running synchronously at the top of the for
   loop), "operation" (awaiting operation(ai)), "backoff" (awaiting the
   timer), "returned", "threw". *)

Callers == {"c1", "c2"}

(* an error object: its status property (null when it has none) and the
   words of its message *)
NoErrorObject == [ status |-> null, message |-> <<>> ]

NoError == [ kind |-> "none", attempt |-> 0, error |-> NoErrorObject ]

IdleCall ==
    [ pc |-> "idle", started |-> 0, attempt |-> 0, MAX_ATTEMPTS |-> 0,
      key |-> "", wakeAt |-> 0, ran |-> 0, steps |-> 0, tried |-> <<>>,
      reported |-> <<>>, thrown |-> NoError ]

--------------------------------------------------------------------------
(* extractImageFromResponse (src/services/geminiService.ts): the response
   of the provider.  An optional string that is not there is absent;
   response.candidates is the sequence of candidates (none when the field
   is missing); a part is a text part or carries inlineData with an optional
   mimeType and the base64 data. *)

absent == "<undefined>"

TextPart == [ inline |-> FALSE, mimeType |-> absent, data |-> absent ]

Parts ==
    {TextPart} \cup [ inline : {TRUE}, mimeType : {absent, "image/jpeg"}, data : {"", "AAAA"} ]

RECURSIVE SeqsUpTo(_, _)
SeqsUpTo(S, n) ==
    IF n = 0 THEN { <<>> }
    ELSE LET shorter == SeqsUpTo(S, n - 1)
         IN  shorter \cup { Append(q, x) : q \in { r \in shorter : Len(r) = n - 1 }, x \in S }

ResponseCandidates ==
    { c \in [ finishReason : {absent, "STOP", "SAFETY"}, hasParts : BOOLEAN,
              parts : SeqsUpTo(Parts, MaxParts) ] :
        ~c.hasParts => c.parts = <<>> }

Responses ==
    [ blockReason : {absent, "", "SAFETY"},
      candidates : { <<>> } \cup { <<c>> : c \in ResponseCandidates } ]

NotCalled == [ kind |-> "pending", text |-> <<>> ]

NoExtraction == [ response |-> [ blockReason |-> absent, candidates |-> <<>> ],
                  result |-> NotCalled ]

--------------------------------------------------------------------------
(* The credit wallet of GlobalStateProvider (src/sw.js, second file of the
   bundle) and the AI operations of the screens that spend from it.  An
   operation is one invocation of a screen handler (each of Ops is invoked
   at most once); `seen` is the value of
   state.credits in the render whose closure the handler runs in. *)

INITIAL_CREDITS == 3

Operations == { "generateMockup", "aiCommand", "generateAsset",
                "removeBackground", "refine", "capture" }

Ops == { "o1", "o2" }

IdleOp == [ pc |-> "idle", kind |-> "", seen |-> 0, mounted |-> TRUE, refunds |-> 0 ]

NewWallet(credits) ==
    [ credits |-> credits, profile |-> credits, ops |-> [ o \in Ops |-> IdleOp ] ]

--------------------------------------------------------------------------
(* A StudioScreen session: the state of useStudioState
   (src/hooks/useStudioState.ts), the asset ids of the global state and the
   gesture of useCanvasGestures.  activeLayerId null is the string "null";
   historyIndex counts from 0 as in the code.  Scales are counted in tenths
   (scale 1 is 10), angles in degrees.  In the gesture lastX and lastY (the
   pointer position of the latest event), mutated (an event of the session
   changed a field of a layer) and carried (the session replaced one that
   had changed a field of a layer and was not released) are history.  wheel is the timer of
   wheelCommitTimeout with what its callback closes over: the list to commit
   and the commit of the render of the notch, that is its history and
   cursor; notchedAt (the time of the latest notch) and notches (the notches
   since the last commit of the timer) are history,
   and so is presses, the pointer-downs handled on the layers so far. *)

NoLayer == "null"

NoGesture == [ active |-> FALSE, layerId |-> "", type |-> "drag",
               startX |-> 0, startY |-> 0,
               startScale |-> 0, startRot |-> 0,
               initialLayerX |-> 0, initialLayerY |-> 0,
               initialDist |-> 0, initialAngle |-> 0,
               hasMoved |-> FALSE,
               lastX |-> 0, lastY |-> 0, mutated |-> FALSE, carried |-> FALSE ]

NoTimer == [ pending |-> FALSE, dueAt |-> 0, newLayers |-> <<>>,
             history |-> <<>>, historyIndex |-> 0,
             notchedAt |-> 0, notches |-> 0 ]

NewStudio(initialLayers, assets) ==
    [ layers |-> initialLayers, activeLayerId |-> NoLayer,
      history |-> <<initialLayers>>, historyIndex |-> 0,
      assets |-> assets, gesture |-> NoGesture,
      isProcessing |-> FALSE, wheel |-> NoTimer, presses |-> 0 ]

--------------------------------------------------------------------------
(* One manager instance over a storage slot nobody else writes *)

(* A capture before it is taken.  Lengths are ratios <<numerator,
   denominator>> of whole numbers in lowest terms, the denominator
   positive. *)

RECURSIVE Gcd(_, _)
Gcd(a, b) == IF b = 0 THEN a ELSE Gcd(b, a % b)

Ratio(n, d) ==
    LET g == Gcd(IF n < 0 THEN -n ELSE n, d)
    IN  <<n \div g, d \div g>>

Whole(n) == Ratio(n, 1)

NoCrop == [ sx |-> Whole(0), sy |-> Whole(0), sWidth |-> Whole(0), sHeight |-> Whole(0) ]

NewCapture(video, screen) ==
    [ vidW |-> video[1], vidH |-> video[2], screenW |-> screen[1], screenH |-> screen[2],
      pc |-> "idle", crop |-> NoCrop ]

NoCapture == NewCapture(<<1, 1>>, <<1, 1>>)

InitPool ==
    /\ \E initialKeys \in InitialKeyLists :
          keys = [ i \in Instances |->
                     [ n \in 1..Len(UniqueKeys(initialKeys)) |->
                         NewKeyState(UniqueKeys(initialKeys)[n]) ] ]
    /\ storage = <<>>
    /\ now = StartTime
    /\ lastOp = NoOp
    /\ grants = [ k \in KeyNames |-> 0 ]
    /\ quotaFailed = [ k \in KeyNames |-> FALSE ]

Init ==
    /\ InitPool
    /\ run = <<>>
    /\ calls = [ c \in Callers |-> IdleCall ]
    /\ extraction = NoExtraction
    /\ capture = NoCapture
    /\ wallet = NewWallet(INITIAL_CREDITS)
    /\ studio = NewStudio(<<>>, {})

Next ==
    \/ GetKey("A") /\ UNCHANGED <<run, calls, extraction, wallet, studio, capture>>
    \/ GetPoolStatus("A") /\ UNCHANGED <<run, calls, extraction, wallet, studio, capture>>
    \/ \E key \in KeyNames \cup {UnknownKey} :
          WithinCap("A") /\ MarkSuccess("A", key) /\ UNCHANGED <<run, calls, extraction, wallet, studio, capture>>
    \/ \E key \in KeyNames \cup {UnknownKey}, isQuota \in BOOLEAN :
          WithinCap("A") /\ MarkFailed("A", key, isQuota) /\ UNCHANGED <<run, calls, extraction, wallet, studio, capture>>
    \/ Tick /\ UNCHANGED <<run, calls, extraction, wallet, studio, capture>>

Spec == Init /\ [][Next]_vars

--------------------------------------------------------------------------
(* Rotation among healthy keys: selections only, with the keys returned by
   the latest Len(pool) consecutive getKey() calls recorded in run. *)

NextRotation ==
    \/ /\ GetKey("A")
       /\ run' = IF lastOp'.mode = "empty" THEN <<>>
                 ELSE Recent(run, lastOp'.key, Len(keys["A"]))
       /\ UNCHANGED <<calls, extraction, wallet, studio, capture>>
    \/ \E key \in KeyNames : WithinCap("A") /\ MarkSuccess("A", key) /\ run' = <<>> /\ UNCHANGED <<calls, extraction, wallet, studio, capture>>
    \/ Tick /\ UNCHANGED <<run, calls, extraction, wallet, studio, capture>>

SpecRotation == Init /\ [][NextRotation]_vars

--------------------------------------------------------------------------
(* Two execution contexts (tabs) A and B, each with its own manager over the
   one storage slot.  A write of the slot by one tab queues a 'storage'
   event in the other; the listener runs loadState() when the other tab's
   event loop reaches it, which may be after that tab's next call.  A tab
   that has reported no outcome yet may be (re)loaded, which constructs its
   manager anew: fresh KeyStates, then loadState(). *)

Construct(i) ==
    /\ SumRequests(keys[i]) = 0
    /\ keys' = [keys EXCEPT ![i] =
                   loadState([ n \in 1..Len(keys[i]) |-> NewKeyState(keys[i][n].key) ],
                             storage)]
    /\ lastOp' = Called("constructor", i, "", "")
    /\ UNCHANGED <<storage, now, grants, quotaFailed>>

StorageEvent(i) ==
    /\ keys' = [keys EXCEPT ![i] = loadState(keys[i], storage)]
    /\ lastOp' = Called("storage", i, "", "")
    /\ UNCHANGED <<storage, now, grants, quotaFailed>>

(* the clock of the two tabs, read at the instants 0..MaxTabClock *)
TickTabs ==
    /\ Tick
    /\ now' <= InstantAt(MaxTabClock)

TabRequests == SumRequests(keys["A"]) + SumRequests(keys["B"])

NextTabs ==
    \/ \E i \in Instances : GetKey(i) /\ UNCHANGED <<run, calls, extraction, wallet, studio, capture>>
    \/ \E i \in Instances, key \in KeyNames :
          TabRequests < MaxTabRequests /\ MarkSuccess(i, key) /\ UNCHANGED <<run, calls, extraction, wallet, studio, capture>>
    \/ \E i \in Instances, key \in KeyNames, isQuota \in BOOLEAN :
          TabRequests < MaxTabRequests /\ MarkFailed(i, key, isQuota) /\ UNCHANGED <<run, calls, extraction, wallet, studio, capture>>
    \/ \E i \in Instances : Construct(i) /\ UNCHANGED <<run, calls, extraction, wallet, studio, capture>>
    \/ \E i \in Instances : StorageEvent(i) /\ UNCHANGED <<run, calls, extraction, wallet, studio, capture>>
    \/ TickTabs /\ UNCHANGED <<run, calls, extraction, wallet, studio, capture>>

(* The tabs are given the list of two distinct keys. *)
InitTabs ==
    /\ Init
    /\ Len(keys["A"]) = Cardinality(KeyNames)

SpecTabs == InitTabs /\ [][NextTabs]_vars

--------------------------------------------------------------------------
(* callGeminiWithRetry (src/services/geminiService.ts) over the singleton
   manager A.  The code between two awaits runs without interleaving: while
   some invocation is at "loop" nothing else happens, and the clock is not
   read at a later instant. *)

BACKOFF_MS == 1000

QuotaMarkers == {"quota", "limit", "429", "exhausted"}

(* The errors the operation may reject with: the provider's HTTP 429, and
   the two errors of geminiService.test.ts. *)
OperationErrors ==
    { [ status |-> 429, message |-> <<"Too", "Many", "Requests">> ],
      [ status |-> null, message |-> <<"Quota", "exceeded">> ],
      [ status |-> null, message |-> <<"Generic", "Error">> ] }

(* String(error) of an Error object, word by word *)
ErrorString(error) == <<"Error:">> \o error.message

ToLowerCase(w) ==
    CASE w = "Error:" -> "error:"
      [] w = "Too" -> "too"
      [] w = "Many" -> "many"
      [] w = "Requests" -> "requests"
      [] w = "Quota" -> "quota"
      [] w = "Generic" -> "generic"
      [] w = "Error" -> "error"
      [] w = "Generation blocked: " -> "generation blocked: "
      [] w = "Generation stopped: " -> "generation stopped: "
      [] w = "SAFETY" -> "safety"
      [] w = "No response candidates returned from AI." -> "no response candidates returned from ai."
      [] w = "AI returned text/metadata but no image data." -> "ai returned text/metadata but no image data."
      [] OTHER -> w

Includes(msg, marker) == \E n \in 1..Len(msg) : msg[n] = marker

(* mutant: only the HTTP status is looked at *)
isQuota_StatusOnly(error) == error.status = 429

(* mutant: every failure counts as a quota failure *)
isQuota_Always(error) == error.status = 429 \/ error.status = null

isQuota(error) ==
    LET str == ErrorString(error)
        msg == [ n \in 1..Len(str) |-> ToLowerCase(str[n]) ]
    IN  \/ error.status = 429
        \/ \E marker \in QuotaMarkers : Includes(msg, marker)

Max(a, b) == IF a >= b THEN a ELSE b

getKeyCount(i) == Len(keys[i])

(* mutant: one attempt too many *)
MaxAttemptsFor_TwoExtra(keyCount) == Max(1, keyCount + 2)

(* Math.max(1, apiKeyManager.getKeyCount() + 1) *)
MaxAttemptsFor(keyCount) == Max(1, keyCount + 1)

(* mutant: the result of getKey() is not tested *)
Falsy_Never(key) == key = ""

(* !key, for the string | null that getKey() returns *)
Falsy(key) == key = "null" \/ key = ""

(* mutant: the last failure is thrown wrapped in a new error *)
Rethrown_Wrapped(attempt, error) ==
    [ kind |-> "allExhausted", attempt |-> attempt, error |-> NoErrorObject ]

(* throw error: the caller gets the error object the operation rejected with *)
Rethrown(attempt, error) ==
    [ kind |-> "operation", attempt |-> attempt, error |-> error ]

(* history bookkeeping: the attempts and reports of the observed invocation
   are recorded; the other caller is its environment *)
Observed == "c1"
Noted(c, h, entry) == IF c = Observed THEN Append(h, entry) ELSE h

Busy == \E c \in Callers : calls[c].pc = "loop"

RECURSIVE SumStarted(_)
SumStarted(cs) ==
    IF cs = {} THEN 0
    ELSE LET c == CHOOSE x \in cs : TRUE
         IN  calls[c].started + SumStarted(cs \ {c})

(* the call: MAX_ATTEMPTS is computed, the loop is entered *)
Start(c) ==
    /\ ~Busy
    /\ calls[c].pc \in {"idle", "returned", "threw"}
    /\ SumStarted(Callers) < MaxCalls
    /\ calls' = [calls EXCEPT ![c] =
                    [ IdleCall EXCEPT !.pc = "loop",
                                      !.started = calls[c].started + 1,
                                      !.MAX_ATTEMPTS = MaxAttemptsFor(getKeyCount("A")) ]]
    /\ lastOp' = Called("callGeminiWithRetry", "A", "", "")
    /\ UNCHANGED <<keys, storage, now, grants, quotaFailed, run>>

(* the top of the loop up to the await: the loop test, getKey(), the throw
   when there is no key, the call of operation(ai) *)
Attempt(c) ==
    LET call == calls[c]
    IN  /\ call.pc = "loop"
        /\ IF call.attempt >= call.MAX_ATTEMPTS THEN
               /\ calls' = [calls EXCEPT ![c].pc = "threw", ![c].steps = @ + 1,
                                         ![c].thrown = [ NoError EXCEPT !.kind = "allExhausted" ]]
               /\ lastOp' = Called("callGeminiWithRetry", "A", "", "")
               /\ UNCHANGED <<keys, storage, now, grants, quotaFailed, run>>
           ELSE
               /\ GetKey("A")
               /\ calls' = IF Falsy(lastOp'.key)
                           THEN [calls EXCEPT ![c].pc = "threw", ![c].steps = @ + 1,
                                              ![c].thrown = [ NoError EXCEPT !.kind = "noKeys",
                                                                             !.attempt = call.attempt ]]
                           ELSE [calls EXCEPT ![c].pc = "operation", ![c].steps = @ + 1,
                                              ![c].key = lastOp'.key,
                                              ![c].ran = @ + 1,
                                              ![c].tried = Noted(c, @, [ key |-> lastOp'.key, at |-> now,
                                                                         mode |-> lastOp'.mode ])]
               /\ UNCHANGED run

(* operation(ai) resolves: markSuccess(key), return result *)
Resolve(c) ==
    LET call == calls[c]
    IN  /\ ~Busy
        /\ call.pc = "operation"
        /\ MarkSuccess("A", call.key)
        /\ calls' = [calls EXCEPT ![c].pc = "returned", ![c].steps = @ + 1,
                                  ![c].reported = Noted(c, @, [ op |-> "markSuccess", key |-> call.key,
                                                                isQuota |-> FALSE, at |-> now,
                                                                error |-> NoErrorObject ])]
        /\ UNCHANGED run

(* mutant: on the last attempt the error is thrown before the failure is
   reported *)
Reject_ThrowFirst(c, error) ==
    LET call == calls[c]
        report == [ op |-> "markFailed", key |-> call.key, isQuota |-> isQuota(error),
                    at |-> now, error |-> error ]
    IN  /\ ~Busy
        /\ call.pc = "operation"
        /\ IF call.attempt = call.MAX_ATTEMPTS - 1 THEN
               /\ calls' = [calls EXCEPT ![c].pc = "threw", ![c].steps = @ + 1,
                                         ![c].thrown = Rethrown(call.attempt, error)]
               /\ lastOp' = Called("callGeminiWithRetry", "A", "", "")
               /\ UNCHANGED <<keys, storage, now, grants, quotaFailed>>
           ELSE
               /\ MarkFailed("A", call.key, isQuota(error))
               /\ calls' = [calls EXCEPT ![c] =
                      IF isQuota(error) THEN
                          [ call EXCEPT !.pc = "loop", !.steps = @ + 1, !.reported = Noted(c, @, report),
                                        !.attempt = @ + 1 ]
                      ELSE
                          [ call EXCEPT !.pc = "backoff", !.steps = @ + 1, !.reported = Noted(c, @, report),
                                        !.wakeAt = now + BACKOFF_MS ]]
        /\ UNCHANGED run

(* operation(ai) rejects: the catch block *)
Reject(c, error) ==
    LET call == calls[c]
        report == [ op |-> "markFailed", key |-> call.key, isQuota |-> isQuota(error),
                    at |-> now, error |-> error ]
    IN  /\ ~Busy
        /\ call.pc = "operation"
        /\ MarkFailed("A", call.key, isQuota(error))
        /\ calls' = [calls EXCEPT ![c] =
               IF call.attempt = call.MAX_ATTEMPTS - 1 THEN
                   [ call EXCEPT !.pc = "threw", !.steps = @ + 1, !.reported = Noted(c, @, report),
                                 !.thrown = Rethrown(call.attempt, error) ]
               ELSE IF isQuota(error) THEN
                   [ call EXCEPT !.pc = "loop", !.steps = @ + 1, !.reported = Noted(c, @, report),
                                 !.attempt = @ + 1 ]
               ELSE
                   [ call EXCEPT !.pc = "backoff", !.steps = @ + 1, !.reported = Noted(c, @, report),
                                 !.wakeAt = now + BACKOFF_MS ]]
        /\ UNCHANGED run

(* the backoff timer fires, BACKOFF_MS after it was set at the earliest *)
Wake(c) ==
    /\ ~Busy
    /\ calls[c].pc = "backoff"
    /\ now' = Max(now, calls[c].wakeAt)
    /\ calls' = [calls EXCEPT ![c].pc = "loop", ![c].attempt = @ + 1, ![c].steps = @ + 1]
    /\ lastOp' = Called("timer", "A", "", "")
    /\ UNCHANGED <<keys, storage, grants, quotaFailed, run>>

(* One invocation at a time: the observed caller calls again and again.
   The clock may jump to a later sampled instant between two calls and
   while a backoff timer is pending; an operation settles within the
   sampled instant at which it was started. *)
NextRetry ==
    \/ Start(Observed) /\ UNCHANGED <<extraction, wallet, studio, capture>>
    \/ Attempt(Observed) /\ UNCHANGED <<extraction, wallet, studio, capture>>
    \/ Resolve(Observed) /\ UNCHANGED <<extraction, wallet, studio, capture>>
    \/ \E error \in OperationErrors : Reject(Observed, error) /\ UNCHANGED <<extraction, wallet, studio, capture>>
    \/ Wake(Observed) /\ UNCHANGED <<extraction, wallet, studio, capture>>
    \/ ~Busy /\ calls[Observed].pc # "operation" /\ Tick /\ UNCHANGED <<run, calls, extraction, wallet, studio, capture>>

SpecRetry == Init /\ [][NextRetry]_vars

(* Overlapping invocations: nothing prevents a second request from being
   issued while the first awaits.  The clock advances with the backoff
   timers only. *)
NextOverlap ==
    \/ \E c \in Callers : Start(c) /\ UNCHANGED <<extraction, wallet, studio, capture>>
    \/ \E c \in Callers : Attempt(c) /\ UNCHANGED <<extraction, wallet, studio, capture>>
    \/ \E c \in Callers : Resolve(c) /\ UNCHANGED <<extraction, wallet, studio, capture>>
    \/ \E c \in Callers, error \in OperationErrors : Reject(c, error) /\ UNCHANGED <<extraction, wallet, studio, capture>>
    \/ \E c \in Callers : Wake(c) /\ UNCHANGED <<extraction, wallet, studio, capture>>

SpecOverlap == Init /\ [][NextOverlap]_vars

--------------------------------------------------------------------------
(* extractImageFromResponse, applied to any response. *)

(* JavaScript truthiness of an optional string *)
StringTruthy(x) == x # absent /\ x # ""

Throws(message) == [ kind |-> "threw", text |-> message ]
Returns(value) == [ kind |-> "returned", text |-> value ]

(* mutant: the prompt feedback is not looked at *)
Blocked_Never(response) == response.blockReason = absent /\ response.blockReason = ""

(* response.promptFeedback?.blockReason *)
Blocked(response) == StringTruthy(response.blockReason)

HasImage(part) == part.inline /\ StringTruthy(part.data)

extractImageFromResponse(response) ==
    IF Blocked(response) THEN
        Throws(<<"Generation blocked: ", response.blockReason>>)
    ELSE IF response.candidates = <<>> THEN
        Throws(<<"No response candidates returned from AI.">>)
    ELSE
        LET candidate == response.candidates[1]
            parts == candidate.parts
            found == { n \in 1..Len(parts) : HasImage(parts[n]) }
        IN  IF StringTruthy(candidate.finishReason) /\ candidate.finishReason # "STOP" THEN
                Throws(<<"Generation stopped: ", candidate.finishReason>>)
            ELSE IF candidate.hasParts /\ found # {} THEN
                LET part == parts[CHOOSE n \in found : \A m \in found : n <= m]
                    mimeType == IF StringTruthy(part.mimeType) THEN part.mimeType
                                ELSE "image/png"
                IN  Returns(<<"data:", mimeType, ";base64,", part.data>>)
            ELSE
                Throws(<<"AI returned text/metadata but no image data.">>)

Extract ==
    /\ extraction.result = NotCalled
    /\ extraction' = [extraction EXCEPT !.result = extractImageFromResponse(extraction.response)]
    /\ UNCHANGED <<keys, storage, now, lastOp, run, grants, quotaFailed, calls, wallet, studio, capture>>

InitExtract ==
    /\ InitPool
    /\ keys["A"] = <<>>
    /\ run = <<>>
    /\ calls = [ c \in Callers |-> IdleCall ]
    /\ extraction \in [ response : Responses, result : {NotCalled} ]
    /\ capture = NoCapture
    /\ wallet = NewWallet(INITIAL_CREDITS)
    /\ studio = NewStudio(<<>>, {})

NextExtract == Extract

SpecExtract == InitExtract /\ [][NextExtract]_vars

(* generateAsset and the other image operations: the operation handed to
   callGeminiWithRetry ends with extractImageFromResponse(response), so it
   rejects with the provider's errors and with the errors the extraction
   throws, which are Error objects without a status.
   The clock advances with the backoff timers only. *)
ValidationErrors ==
    { [ status |-> null, message |-> extractImageFromResponse(response).text ] :
          response \in { r \in Responses : extractImageFromResponse(r).kind = "threw" } }

GenerationErrors == ValidationErrors \cup OperationErrors

NextGeneration ==
    \/ Start(Observed) /\ UNCHANGED <<extraction, wallet, studio, capture>>
    \/ Attempt(Observed) /\ UNCHANGED <<extraction, wallet, studio, capture>>
    \/ Resolve(Observed) /\ UNCHANGED <<extraction, wallet, studio, capture>>
    \/ \E error \in GenerationErrors : Reject(Observed, error) /\ UNCHANGED <<extraction, wallet, studio, capture>>
    \/ Wake(Observed) /\ UNCHANGED <<extraction, wallet, studio, capture>>

SpecGeneration == Init /\ [][NextGeneration]_vars

--------------------------------------------------------------------------
(* Credits: spend before the call, refund in the handler's catch block.

   spendCredits and addCredits are useCallback closures over state.credits
   (src/sw.js 336-359): both compute the new balance from the credits of the
   render they were created in and dispatch it as an absolute SET_CREDITS.
   A screen handler keeps, for its whole asynchronous run, the two closures of
   the render in which it was invoked.  With a signed-in user each call also
   posts an atomic increment to the stored profile (adjustCredits). *)

Signed == TRUE

canSpend(credits, amount) == credits >= amount

spendCredits(seen, amount) == seen - amount

addCredits(seen, amount) == seen + amount

adjustCredits(profile, amount) == IF Signed THEN profile + amount ELSE profile

(* AssetsScreen runs handleError, which holds the refund, only while
   isMounted.current (AssetsScreen.tsx 164, 199); the other handlers call
   addCredits(1) in their catch block unconditionally. *)
GuardedByMount(kind) == kind \in { "generateAsset", "removeBackground" }

RunsCatch(op) == ~GuardedByMount(op.kind) \/ op.mounted

(* The handler up to its first await of the AI call: spendCredits(1), and
   validateApiKey(), which resolves to true (src/hooks/useApiKey.ts 23-27). *)
StartOperation(o, kind) ==
    /\ wallet.ops[o].pc = "idle"
    /\ IF canSpend(wallet.credits, 1) THEN
           wallet' = [ credits |-> spendCredits(wallet.credits, 1),
                       profile |-> adjustCredits(wallet.profile, -1),
                       ops |-> [ wallet.ops EXCEPT ![o] =
                                   [ pc |-> "calling", kind |-> kind, seen |-> wallet.credits,
                                     mounted |-> TRUE, refunds |-> 0 ] ] ]
       ELSE
           wallet' = [ wallet EXCEPT !.ops[o] =
                                   [ pc |-> "refused", kind |-> kind, seen |-> wallet.credits,
                                     mounted |-> TRUE, refunds |-> 0 ] ]
    /\ lastOp' = Called(kind, o, "", "start")
    /\ UNCHANGED <<keys, storage, now, run, grants, quotaFailed, calls, extraction, studio, capture>>

(* The screen that started the operation is left while the call is pending *)
ScreenUnmounted(o) ==
    /\ wallet.ops[o].pc = "calling"
    /\ wallet.ops[o].mounted
    /\ wallet' = [ wallet EXCEPT !.ops[o].mounted = FALSE ]
    /\ lastOp' = Called(wallet.ops[o].kind, o, "", "unmount")
    /\ UNCHANGED <<keys, storage, now, run, grants, quotaFailed, calls, extraction, studio, capture>>

OperationResolved(o) ==
    /\ wallet.ops[o].pc = "calling"
    /\ wallet' = [ wallet EXCEPT !.ops[o].pc = "done" ]
    /\ lastOp' = Called(wallet.ops[o].kind, o, "", "resolved")
    /\ UNCHANGED <<keys, storage, now, run, grants, quotaFailed, calls, extraction, studio, capture>>

(* The catch block of the handler *)
OperationRejected(o) ==
    LET op == wallet.ops[o]
    IN  /\ op.pc = "calling"
        /\ IF RunsCatch(op) THEN
               wallet' = [ credits |-> addCredits(op.seen, 1),
                           profile |-> adjustCredits(wallet.profile, 1),
                           ops |-> [ wallet.ops EXCEPT ![o] =
                                       [ op EXCEPT !.pc = "failed", !.refunds = op.refunds + 1 ] ] ]
           ELSE
               wallet' = [ wallet EXCEPT !.ops[o].pc = "failed" ]
        /\ lastOp' = Called(op.kind, o, "", "rejected")
        /\ UNCHANGED <<keys, storage, now, run, grants, quotaFailed, calls, extraction, studio, capture>>

InitCredits ==
    /\ InitPool
    /\ keys["A"] = <<>>
    /\ run = <<>>
    /\ calls = [ c \in Callers |-> IdleCall ]
    /\ extraction = NoExtraction
    /\ capture = NoCapture
    /\ \E credits \in 0..INITIAL_CREDITS : wallet = NewWallet(credits)
    /\ studio = NewStudio(<<>>, {})

NextCredits ==
    \/ \E o \in Ops, kind \in Operations : StartOperation(o, kind)
    \/ \E o \in Ops : ScreenUnmounted(o)
    \/ \E o \in Ops : OperationResolved(o)
    \/ \E o \in Ops : OperationRejected(o)

SpecCredits == InitCredits /\ [][NextCredits]_vars

--------------------------------------------------------------------------
(* useStudioState (src/hooks/useStudioState.ts).  Each operator is one
   callback of the hook, applied to the state of the latest render: it gives
   the state after the setState calls of the callback have been applied. *)

HISTORY_LIMIT == 20

Min(a, b) == IF a <= b THEN a ELSE b

Clamp(v) == Max(0, Min(100, v))

LayerIds == { "u1", "u2" }

UnknownLayer == "u9"

AssetIds == { "a1", "a2" }

(* addLayer's literal: centred, scale 1 (ten tenths), rotation 0 *)
NewLayer(uid, assetId) ==
    [ uid |-> uid, assetId |-> assetId, x |-> 50, y |-> 50, scale |-> 10, rotation |-> 0 ]

RECURSIVE FilterLayers(_, _)
(* layers.filter(l => keep[l]) for the set keep of layers that pass the test *)
FilterLayers(layers, keep) ==
    IF layers = <<>> THEN <<>>
    ELSE IF Head(layers) \in keep THEN <<Head(layers)>> \o FilterLayers(Tail(layers), keep)
    ELSE FilterLayers(Tail(layers), keep)

Uids(layers) == { layers[n].uid : n \in DOMAIN layers }

some(layers, id) == id \in Uids(layers)

(* layers.findIndex(l => l.uid === id), counted from 0; -1 when absent *)
findIndex(layers, id) ==
    LET hits == { n \in DOMAIN layers : layers[n].uid = id }
    IN  IF hits = {} THEN -1 ELSE (CHOOSE n \in hits : \A m \in hits : n <= m) - 1

(* { ...l, ...updates }: updates is a sequence of <<field, value>> pairs *)
RECURSIVE Spread(_, _)
Spread(l, updates) ==
    IF updates = <<>> THEN l
    ELSE Spread([ l EXCEPT ![Head(updates)[1]] = Head(updates)[2] ], Tail(updates))

MapLayer(layers, id, updates) ==
    [ n \in DOMAIN layers |-> IF layers[n].uid = id THEN Spread(layers[n], updates) ELSE layers[n] ]

(* commit keeps the whole history where it should cut it at the cursor *)
Truncated_KeepsFuture(history, historyIndex) == history

Truncated(history, historyIndex) == SubSeq(history, 1, historyIndex + 1)

(* no cap *)
Capped_Unbounded(nextHistory) == nextHistory

Capped(nextHistory) ==
    IF Len(nextHistory) > HISTORY_LIMIT THEN Tail(nextHistory) ELSE nextHistory

commit(s, newLayers) ==
    LET nextHistory == Capped(Append(Truncated(s.history, s.historyIndex), newLayers))
    IN  [ s EXCEPT !.layers = newLayers,
                   !.history = nextHistory,
                   !.historyIndex = Len(nextHistory) - 1 ]

Evicts(s) == Len(Truncated(s.history, s.historyIndex)) + 1 > HISTORY_LIMIT

canUndo(s) == s.historyIndex > 0

canRedo(s) == s.historyIndex < Len(s.history) - 1

(* undo moves the cursor and leaves the live list alone *)
Restored_CursorOnly(s, index) == [ s EXCEPT !.historyIndex = index ]

(* the body shared by undo and redo: cursor, live list, selection *)
Restored(s, index) ==
    LET snapshot == s.history[index + 1]
    IN  [ s EXCEPT !.historyIndex = index,
                   !.layers = snapshot,
                   !.activeLayerId =
                       IF s.activeLayerId # NoLayer /\ ~some(snapshot, s.activeLayerId)
                       THEN NoLayer ELSE s.activeLayerId ]

undo(s) == IF s.historyIndex > 0 THEN Restored(s, s.historyIndex - 1) ELSE s

redo(s) == IF s.historyIndex < Len(s.history) - 1 THEN Restored(s, s.historyIndex + 1) ELSE s

addLayer(s, uid, assetId) ==
    [ commit(s, Append(s.layers, NewLayer(uid, assetId))) EXCEPT !.activeLayerId = uid ]

(* updateLayer commits what it should only set *)
updateLayer_Commits(s, id, updates) == commit(s, MapLayer(s.layers, id, updates))

updateLayer(s, id, updates) == [ s EXCEPT !.layers = MapLayer(s.layers, id, updates) ]

commitUpdate(s, id, updates) == commit(s, MapLayer(s.layers, id, updates))

removeLayer(s, id) ==
    LET newLayers == FilterLayers(s.layers, { l \in Range(s.layers) : l.uid # id })
    IN  [ commit(s, newLayers) EXCEPT
            !.activeLayerId = IF s.activeLayerId = id THEN NoLayer ELSE s.activeLayerId ]

Swap(layers, i, j) ==
    [ n \in DOMAIN layers |-> IF n = i THEN layers[j] ELSE IF n = j THEN layers[i] ELSE layers[n] ]

(* index is findIndex's, from 0; `Only commit if changed` *)
reorderLayer(s, id, direction) ==
    LET index == findIndex(s.layers, id)
    IN  IF index = -1 THEN s
        ELSE IF direction = "backward" /\ index > 0 THEN
            commit(s, Swap(s.layers, index + 1, index))
        ELSE IF direction = "forward" /\ index < Len(s.layers) - 1 THEN
            commit(s, Swap(s.layers, index + 1, index + 2))
        ELSE s

clearCanvas(s) == [ commit(s, <<>>) EXCEPT !.activeLayerId = NoLayer ]

(* StudioScreen's garbage-collection effect (src/unnamed/part_000 64-72): it
   runs after every render in which assets or layers changed, so every
   handler of the session ends with it. *)
Resolves(s, l) == l.assetId \in s.assets

(* the effect that never drops a layer *)
reconcile_Never(s) == s

reconcile(s) ==
    IF Len(s.layers) > 0 THEN
        LET validLayers == FilterLayers(s.layers, { l \in Range(s.layers) : Resolves(s, l) })
        IN  IF Len(validLayers) # Len(s.layers) THEN [ s EXCEPT !.layers = validLayers ] ELSE s
    ELSE s

(* One handler of the session: the callback's state changes, then the
   effect. *)
StudioStep(op, id, mode, next) ==
    /\ studio' = reconcile(next)
    /\ lastOp' = Called(op, "studio", id, mode)
    /\ UNCHANGED <<keys, storage, now, grants, quotaFailed, calls, extraction, wallet, capture>>

Commit(snapshot) ==
    StudioStep("commit", "",
               IF Evicts(studio) THEN "evicted"
               ELSE IF canRedo(studio) THEN "truncated" ELSE "appended",
               commit(studio, snapshot))

Undo == StudioStep("undo", "", IF canUndo(studio) THEN "moved" ELSE "none", undo(studio))

Redo == StudioStep("redo", "", IF canRedo(studio) THEN "moved" ELSE "none", redo(studio))

--------------------------------------------------------------------------
(* The history stack alone: commit with any snapshot, undo, redo, for as
   long as it takes to fill the stack.  Snapshots are the empty list and one
   list of a single layer; `run` follows the sequence commit, commit, undo,
   redo. *)

HistorySnapshots == { <<>>, <<NewLayer("u1", "a1")>> }

Marked(history) == Cardinality({ n \in DOMAIN history : history[n] # <<>> })

CommitCall(snapshot) == [ op |-> "commit", layers |-> snapshot ]

MoveCall(op) == [ op |-> op, layers |-> <<>> ]

(* the longest suffix of the calls made that begins commit, commit, undo, redo *)
Followed(trail, call) ==
    IF call.op = "commit" THEN
        IF Len(trail) \in {1, 2} THEN <<trail[Len(trail)], call>> ELSE <<call>>
    ELSE IF call.op = "undo" THEN
        IF Len(trail) = 2 THEN Append(trail, call) ELSE <<>>
    ELSE
        IF Len(trail) = 3 THEN Append(trail, call) ELSE <<>>

InitHistory ==
    /\ InitPool
    /\ keys["A"] = <<>>
    /\ run = <<>>
    /\ calls = [ c \in Callers |-> IdleCall ]
    /\ extraction = NoExtraction
    /\ capture = NoCapture
    /\ wallet = NewWallet(INITIAL_CREDITS)
    /\ \E initialLayers \in HistorySnapshots :
          /\ Marked(<<initialLayers>>) <= MaxMarked
          /\ studio = NewStudio(initialLayers, {"a1"})

NextHistory ==
    \/ \E snapshot \in HistorySnapshots :
          /\ snapshot = <<>> \/ Marked(studio.history) < MaxMarked
          /\ Commit(snapshot)
          /\ run' = Followed(run, CommitCall(snapshot))
    \/ Undo /\ run' = Followed(run, MoveCall("undo"))
    \/ Redo /\ run' = Followed(run, MoveCall("redo"))

SpecHistory == InitHistory /\ [][NextHistory]_vars

--------------------------------------------------------------------------
(* A Studio session (src/unnamed/part_000): layers are added from the asset
   list, edited, reordered, removed, undone and redone while assets are
   deleted in the library; in the drag sessions they are dragged on the
   canvas.  The canvas is 200 by 100 pixels; a drag is pressed on a rendered
   layer and moved among four pointer positions.  An event is the position
   of its first pointer and, for a touch event of two fingers, that of the
   second. *)

CanvasRect == [ width |-> 200, height |-> 100 ]

OnePointer(x, y) == [ x |-> x, y |-> y, touches |-> 1, x2 |-> 0, y2 |-> 0 ]

TwoTouches(x, y, x2, y2) == [ x |-> x, y |-> y, touches |-> 2, x2 |-> x2, y2 |-> y2 ]

Pointers == { OnePointer(300, 50), OnePointer(320, 50), OnePointer(600, 40), OnePointer(0, 60) }

FieldUpdates == { <<>>, << <<"x", 60>> >> }

Directions == { "forward", "backward" }

(* (deltaPixels / extent) * 100, exact for the pointer positions above *)
Percent(deltaPixels, extent) == (deltaPixels * 100) \div extent

UsedUids == Uids(studio.layers) \cup UNION { Uids(studio.history[n]) : n \in DOMAIN studio.history }

Room == Len(studio.history) < MaxHistory

AddLayer(assetId) ==
    /\ Room
    /\ assetId \in studio.assets
    /\ \E uid \in LayerIds \ UsedUids :
          StudioStep("addLayer", uid, "", addLayer(studio, uid, assetId))

UpdateLayer(id, updates) ==
    StudioStep("updateLayer", id, IF some(studio.layers, id) THEN "known" ELSE "unknown",
               updateLayer(studio, id, updates))

CommitUpdate(id, updates) ==
    /\ Room
    /\ StudioStep("commitUpdate", id, IF some(studio.layers, id) THEN "known" ELSE "unknown",
                  commitUpdate(studio, id, updates))

RemoveLayer(id) ==
    /\ Room
    /\ StudioStep("removeLayer", id, IF some(studio.layers, id) THEN "known" ELSE "unknown",
                  removeLayer(studio, id))

ReorderLayer(id, direction) ==
    /\ Room
    /\ StudioStep("reorderLayer", id, IF some(studio.layers, id) THEN "known" ELSE "unknown",
                  reorderLayer(studio, id, direction))

ClearCanvas ==
    /\ Room
    /\ StudioStep("clearCanvas", "", "", clearCanvas(studio))

(* the canvas background is pressed, or the layer panel closed *)
Deselect ==
    /\ studio.activeLayerId # NoLayer
    /\ StudioStep("setActiveLayerId", NoLayer, "", [ studio EXCEPT !.activeLayerId = NoLayer ])

(* REMOVE_ASSET of the global state (src/sw.js 152-153) *)
RemoveAsset(assetId) ==
    /\ assetId \in studio.assets
    /\ StudioStep("removeAsset", assetId, "", [ studio EXCEPT !.assets = @ \ {assetId} ])

(* Math.sqrt of a sum of squares; the touches of the sessions are chosen so
   that the root is a whole number of pixels *)
Sqrt(n) == CHOOSE r \in 0..n : r * r <= n /\ n < (r + 1) * (r + 1)

getDist(pointer) ==
    Sqrt((pointer.x - pointer.x2) * (pointer.x - pointer.x2)
         + (pointer.y - pointer.y2) * (pointer.y - pointer.y2))

(* Math.atan2(dy, dx) * 180 / Math.PI, in (-180, 180], for the eight
   directions of the compass; the touches of the sessions lie in these *)
Atan2Degrees(dy, dx) ==
    CASE dy = 0 /\ dx >= 0 -> 0
      [] dy = 0 /\ dx < 0 -> 180
      [] dx = 0 /\ dy > 0 -> 90
      [] dx = 0 /\ dy < 0 -> -90
      [] dy = dx /\ dx > 0 -> 45
      [] dy = dx /\ dx < 0 -> -135
      [] dy = -dx /\ dx > 0 -> -45
      [] dy = -dx /\ dx < 0 -> 135

getAngle(pointer) == Atan2Degrees(pointer.y2 - pointer.y, pointer.x2 - pointer.x)

(* the % of the language: the remainder takes the sign of the dividend *)
Remainder(a, n) == IF a >= 0 THEN a % n ELSE -((-a) % n)

(* Math.max(0.1, Math.min(5, v)) in tenths *)
ClampScale(v) == Max(1, Min(50, v))

(* -1, 0 or 1 *)
Sign(v) == IF v > 0 THEN 1 ELSE IF v < 0 THEN -1 ELSE 0

handlePointerDown(s, layerId, pointer) ==
    IF s.isProcessing THEN s
    ELSE IF ~some(s.layers, layerId) THEN [ s EXCEPT !.activeLayerId = layerId ]
    ELSE LET layer == s.layers[findIndex(s.layers, layerId) + 1]
         IN  IF pointer.touches = 2
             THEN [ s EXCEPT !.activeLayerId = layerId,
                             !.gesture = [ active |-> TRUE, layerId |-> layerId, type |-> "pinch",
                                           startX |-> 0, startY |-> 0,
                                           startScale |-> layer.scale, startRot |-> layer.rotation,
                                           initialLayerX |-> 0, initialLayerY |-> 0,
                                           initialDist |-> getDist(pointer),
                                           initialAngle |-> getAngle(pointer),
                                           hasMoved |-> FALSE,
                                           lastX |-> pointer.x, lastY |-> pointer.y,
                                           mutated |-> FALSE,
                                           carried |-> s.gesture.active
                                                       /\ (s.gesture.mutated \/ s.gesture.carried) ] ]
             ELSE [ s EXCEPT !.activeLayerId = layerId,
                             !.gesture = [ active |-> TRUE, layerId |-> layerId, type |-> "drag",
                                           startX |-> pointer.x, startY |-> pointer.y,
                                           startScale |-> layer.scale, startRot |-> layer.rotation,
                                           initialLayerX |-> layer.x, initialLayerY |-> layer.y,
                                           initialDist |-> 0, initialAngle |-> 0,
                                           hasMoved |-> FALSE,
                                           lastX |-> pointer.x, lastY |-> pointer.y,
                                           mutated |-> FALSE,
                                           carried |-> s.gesture.active
                                                       /\ (s.gesture.mutated \/ s.gesture.carried) ] ]

(* the event of a handled move: the flag, and the history of the session *)
Moved(s, pointer, newLayers) ==
    [ s EXCEPT !.gesture.hasMoved = TRUE,
               !.gesture.lastX = pointer.x,
               !.gesture.lastY = pointer.y,
               !.gesture.mutated = s.gesture.mutated \/ newLayers # s.layers,
               !.layers = newLayers ]

(* the move adds the displacement to the layer's current position *)
handleMove_Accumulates(s, pointer) ==
    LET g == s.gesture
        l == s.layers[findIndex(s.layers, g.layerId) + 1]
    IN  IF ~g.active \/ ~some(s.layers, g.layerId) THEN s
        ELSE Moved(s, pointer, MapLayer(s.layers, g.layerId,
                 << <<"x", Clamp(l.x + Percent(pointer.x - g.startX, CanvasRect.width))>>,
                    <<"y", Clamp(l.y + Percent(pointer.y - g.startY, CanvasRect.height))>> >>))

(* a scale of startScale * dist / initialDist is rounded down to a tenth *)
handleMove(s, pointer) ==
    LET g == s.gesture
        deltaXPercent == Percent(pointer.x - g.startX, CanvasRect.width)
        deltaYPercent == Percent(pointer.y - g.startY, CanvasRect.height)
        scaleRatioTimesStart == (g.startScale * getDist(pointer)) \div g.initialDist
        angleDelta == getAngle(pointer) - g.initialAngle
    IN  IF ~g.active \/ s.isProcessing THEN s
        ELSE IF g.type = "pinch" /\ pointer.touches = 2
        THEN Moved(s, pointer, MapLayer(s.layers, g.layerId,
                 << <<"scale", ClampScale(scaleRatioTimesStart)>>,
                    <<"rotation", Remainder(g.startRot + angleDelta, 360)>> >>))
        ELSE IF g.type = "drag"
        THEN Moved(s, pointer, MapLayer(s.layers, g.layerId,
                 << <<"x", Clamp(g.initialLayerX + deltaXPercent)>>,
                    <<"y", Clamp(g.initialLayerY + deltaYPercent)>> >>))
        ELSE Moved(s, pointer, s.layers)

handleUp(s) ==
    IF s.gesture.active THEN
        [ (IF s.gesture.hasMoved THEN commit(s, s.layers) ELSE s) EXCEPT !.gesture = NoGesture ]
    ELSE s

WHEEL_DEBOUNCE_MS == 500

(* every notch commits at once *)
handleWheel_Immediate(s, deltaY, time) ==
    IF s.activeLayerId = NoLayer \/ s.isProcessing THEN s
    ELSE IF ~some(s.layers, s.activeLayerId) THEN s
    ELSE LET layer == s.layers[findIndex(s.layers, s.activeLayerId) + 1]
             newLayers == MapLayer(s.layers, s.activeLayerId,
                              << <<"scale", ClampScale(layer.scale - Sign(deltaY))>> >>)
         IN  commit(s, newLayers)

(* a notch at `time`: the timer is cleared and set again, its callback closes
   over newLayers and over the commit of this render *)
handleWheel(s, deltaY, time) ==
    IF s.activeLayerId = NoLayer \/ s.isProcessing THEN s
    ELSE IF ~some(s.layers, s.activeLayerId) THEN s
    ELSE LET layer == s.layers[findIndex(s.layers, s.activeLayerId) + 1]
             delta == Sign(deltaY) * (-1)
             newScale == ClampScale(layer.scale + delta)
             newLayers == MapLayer(s.layers, s.activeLayerId, << <<"scale", newScale>> >>)
         IN  [ s EXCEPT !.layers = newLayers,
                        !.wheel = [ pending |-> TRUE, dueAt |-> time + WHEEL_DEBOUNCE_MS,
                                    newLayers |-> newLayers,
                                    history |-> s.history,
                                    historyIndex |-> s.historyIndex,
                                    notchedAt |-> time,
                                    notches |-> s.wheel.notches + 1 ] ]

(* the callback of the timer: commitHistory(newLayers) of the render of the
   notch *)
wheelCommit(s) ==
    [ commit([ s EXCEPT !.history = s.wheel.history,
                        !.historyIndex = s.wheel.historyIndex ], s.wheel.newLayers)
        EXCEPT !.wheel = NoTimer ]

(* handleGenerate once the credit is spent: the canvas is disabled and the
   selection cleared; its finally enables the canvas again *)
startProcessing(s) == [ s EXCEPT !.isProcessing = TRUE, !.activeLayerId = NoLayer ]

stopProcessing(s) == [ s EXCEPT !.isProcessing = FALSE ]

(* an arrow key with shift: five percent *)
onNudge(s, dx, dy) ==
    IF s.activeLayerId # NoLayer /\ some(s.layers, s.activeLayerId)
    THEN LET l == s.layers[findIndex(s.layers, s.activeLayerId) + 1]
         IN  updateLayer(s, s.activeLayerId,
                         << <<"x", Max(0, Min(100, l.x + dx))>>,
                            <<"y", Max(0, Min(100, l.y + dy))>> >>)
    ELSE s

(* onMouseDown / onTouchStart of a rendered layer *)
PointerDown(layerId, pointer) ==
    /\ ~studio.gesture.active
    /\ some(studio.layers, layerId)
    /\ StudioStep("handlePointerDown", layerId, "", handlePointerDown(studio, layerId, pointer))

HandleMove(pointer) ==
    /\ studio.gesture.active
    /\ StudioStep("handleMove", studio.gesture.layerId, "", handleMove(studio, pointer))

HandleUp ==
    /\ studio.gesture.active
    /\ studio.gesture.hasMoved => Room
    /\ StudioStep("handleUp", studio.gesture.layerId,
                  IF studio.gesture.hasMoved THEN "moved" ELSE "still", handleUp(studio))

(* onMouseDown / onTouchStart of a rendered layer, also while a session is
   active (a second finger, another mouse button) *)
Touch(layerId, pointer) ==
    /\ some(studio.layers, layerId)
    /\ studio.presses < MaxPresses
    /\ StudioStep("handlePointerDown", layerId,
                  IF studio.isProcessing THEN "ignored"
                  ELSE IF studio.gesture.active THEN "replaced" ELSE "",
                  [ handlePointerDown(studio, layerId, pointer) EXCEPT !.presses = @ + 1 ])

(* onMouseMove / onTouchMove of the canvas area, with or without a session *)
Move(pointer) ==
    StudioStep("handleMove", studio.gesture.layerId,
               IF ~studio.gesture.active \/ studio.isProcessing THEN "ignored" ELSE "",
               handleMove(studio, pointer))

(* onMouseUp / onMouseLeave / onTouchEnd of the canvas area *)
Up ==
    /\ studio.gesture.active /\ studio.gesture.hasMoved => Room
    /\ StudioStep("handleUp", studio.gesture.layerId,
                  IF ~studio.gesture.active THEN "ignored"
                  ELSE IF studio.gesture.hasMoved THEN "moved" ELSE "still", handleUp(studio))

(* onWheel of the canvas *)
Wheel(deltaY) ==
    /\ Room
    /\ studio.wheel.notches < MaxNotches
    /\ StudioStep("handleWheel", studio.activeLayerId,
                  IF studio.activeLayerId = NoLayer \/ studio.isProcessing
                     \/ ~some(studio.layers, studio.activeLayerId) THEN "ignored"
                  ELSE IF deltaY < 0 THEN "in" ELSE IF deltaY > 0 THEN "out" ELSE "none",
                  handleWheel(studio, deltaY, now))

(* the timer of the latest notch fires *)
WheelCommit ==
    /\ studio.wheel.pending
    /\ now >= studio.wheel.dueAt
    /\ StudioStep("wheelCommit", "", "", wheelCommit(studio))

(* time passes, up to the moment the pending timer is due *)
Elapse(delay) ==
    /\ now - StartTime < MaxElapsed
    /\ now' = IF studio.wheel.pending /\ now + delay > studio.wheel.dueAt
              THEN studio.wheel.dueAt ELSE now + delay
    /\ now' > now
    /\ lastOp' = Called("elapse", "studio", "", "")
    /\ UNCHANGED <<keys, storage, grants, quotaFailed, calls, extraction, wallet, studio, capture>>

StartProcessing ==
    /\ ~studio.isProcessing
    /\ Len(studio.layers) > 0
    /\ StudioStep("handleGenerate", "", "start", startProcessing(studio))

StopProcessing ==
    /\ studio.isProcessing
    /\ StudioStep("handleGenerate", "", "finally", stopProcessing(studio))

Nudge(dx, dy) ==
    /\ ~studio.isProcessing
    /\ StudioStep("onNudge", studio.activeLayerId, "", onNudge(studio, dx, dy))

InitStudio ==
    /\ InitPool
    /\ keys["A"] = <<>>
    /\ run = <<>>
    /\ calls = [ c \in Callers |-> IdleCall ]
    /\ extraction = NoExtraction
    /\ capture = NoCapture
    /\ wallet = NewWallet(INITIAL_CREDITS)
    /\ studio = NewStudio(<<>>, AssetIds)

NextStudio ==
    \/ \E assetId \in AssetIds : AddLayer(assetId) /\ UNCHANGED run
    \/ \E id \in LayerIds \cup {UnknownLayer}, updates \in FieldUpdates :
          UpdateLayer(id, updates) /\ UNCHANGED run
    \/ \E id \in LayerIds \cup {UnknownLayer}, updates \in FieldUpdates :
          CommitUpdate(id, updates) /\ UNCHANGED run
    \/ \E id \in LayerIds \cup {UnknownLayer} : RemoveLayer(id) /\ UNCHANGED run
    \/ \E id \in LayerIds \cup {UnknownLayer}, direction \in Directions :
          ReorderLayer(id, direction) /\ UNCHANGED run
    \/ ClearCanvas /\ UNCHANGED run
    \/ Deselect /\ UNCHANGED run
    \/ Undo /\ UNCHANGED run
    \/ Redo /\ UNCHANGED run
    \/ \E assetId \in AssetIds : RemoveAsset(assetId) /\ UNCHANGED run

SpecStudio == InitStudio /\ [][NextStudio]_vars

(* Drag sessions: layers are added, pressed, moved and released. *)
NextDrag ==
    \/ \E assetId \in AssetIds : AddLayer(assetId) /\ UNCHANGED run
    \/ \E layerId \in LayerIds, pointer \in Pointers : PointerDown(layerId, pointer) /\ UNCHANGED run
    \/ \E pointer \in Pointers : HandleMove(pointer) /\ UNCHANGED run
    \/ HandleUp /\ UNCHANGED run

SpecDrag == InitStudio /\ [][NextDrag]_vars

(* Pinch sessions: one layer is added and then dragged, pinched and, between
   the sessions, nudged.
   The touches are four pixels apart side by side or eight pixels apart one
   above the other. *)
PinchPointers ==
    { OnePointer(300, 50), OnePointer(320, 50),
      TwoTouches(300, 50, 304, 50), TwoTouches(300, 50, 300, 58) }

NextPinch ==
    \/ Len(studio.layers) = 0 /\ AddLayer("a1") /\ UNCHANGED run
    \/ \E layerId \in LayerIds, pointer \in PinchPointers : Touch(layerId, pointer) /\ UNCHANGED run
    \/ \E pointer \in PinchPointers : Move(pointer) /\ UNCHANGED run
    \/ Up /\ UNCHANGED run
    \/ \E dx \in { -5, 5 } : ~studio.gesture.active /\ Nudge(dx, 0) /\ UNCHANGED run

SpecPinch == InitStudio /\ [][NextPinch]_vars

(* Wheel sessions: a Studio opened on a draft of one layer, which is
   selected by a press and a release and scaled by bursts of notches while
   time passes; nothing else commits. *)
DraftScales == { 1, 10, 50 }

WheelDeltas == { -100, -3, 0, 100 }

Delays == { 250, 500 }

InitWheel ==
    /\ InitPool
    /\ keys["A"] = <<>>
    /\ run = <<>>
    /\ calls = [ c \in Callers |-> IdleCall ]
    /\ extraction = NoExtraction
    /\ capture = NoCapture
    /\ wallet = NewWallet(INITIAL_CREDITS)
    /\ \E scale \in DraftScales :
          studio = NewStudio(<< [ NewLayer("u1", "a1") EXCEPT !.scale = scale ] >>, AssetIds)

NextWheel ==
    \/ Touch("u1", OnePointer(300, 50)) /\ UNCHANGED run
    \/ Up /\ UNCHANGED run
    \/ \E deltaY \in WheelDeltas : Wheel(deltaY) /\ UNCHANGED run
    \/ WheelCommit /\ UNCHANGED run
    \/ \E delay \in Delays : Elapse(delay) /\ UNCHANGED run

SpecWheel == InitWheel /\ [][NextWheel]_vars

(* Interrupted sessions: a layer is added, dragged and scaled by the wheel
   while another layer is added, generation starts and ends and time
   passes. *)
NextInterrupt ==
    \/ ~studio.isProcessing /\ AddLayer("a1") /\ UNCHANGED run
    \/ Touch("u1", OnePointer(300, 50)) /\ UNCHANGED run
    \/ Move(OnePointer(320, 50)) /\ UNCHANGED run
    \/ Up /\ UNCHANGED run
    \/ Wheel(-100) /\ UNCHANGED run
    \/ WheelCommit /\ UNCHANGED run
    \/ Elapse(WHEEL_DEBOUNCE_MS) /\ UNCHANGED run
    \/ StartProcessing /\ UNCHANGED run
    \/ StopProcessing /\ UNCHANGED run

SpecInterrupt == InitStudio /\ [][NextInterrupt]_vars

--------------------------------------------------------------------------
(* The capture of TryOnScreen (src/unnamed/part_002): the part of the video
   frame the viewport shows under object-cover is computed from the sizes of
   the frame and of the container.  The arithmetic is that of ratios, exact;
   frames and containers have positive sizes. *)

Over(a, b) == Ratio(a[1] * b[2], a[2] * b[1])

Times(a, b) == Ratio(a[1] * b[1], a[2] * b[2])

Minus(a, b) == Ratio(a[1] * b[2] - b[1] * a[2], a[2] * b[2])

Plus(a, b) == Ratio(a[1] * b[2] + b[1] * a[2], a[2] * b[2])

Half(a) == Ratio(a[1], 2 * a[2])

Greater(a, b) == a[1] * b[2] > b[1] * a[2]

Same(a, b) == a[1] * b[2] = b[1] * a[2]

(* the branches are taken the other way round *)
captureCrop_Swapped(vidW, vidH, screenW, screenH) ==
    LET screenAspect == Ratio(screenW, screenH)
        vidAspect == Ratio(vidW, vidH)
    IN  IF ~Greater(screenAspect, vidAspect)
        THEN LET sHeight == Over(Whole(vidW), screenAspect)
             IN  [ sx |-> Whole(0), sy |-> Half(Minus(Whole(vidH), sHeight)),
                   sWidth |-> Whole(vidW), sHeight |-> sHeight ]
        ELSE LET sWidth == Times(Whole(vidH), screenAspect)
             IN  [ sx |-> Half(Minus(Whole(vidW), sWidth)), sy |-> Whole(0),
                   sWidth |-> sWidth, sHeight |-> Whole(vidH) ]

captureCrop(vidW, vidH, screenW, screenH) ==
    LET screenAspect == Ratio(screenW, screenH)
        vidAspect == Ratio(vidW, vidH)
    IN  IF Greater(screenAspect, vidAspect)
        THEN LET sHeight == Over(Whole(vidW), screenAspect)
             IN  [ sx |-> Whole(0), sy |-> Half(Minus(Whole(vidH), sHeight)),
                   sWidth |-> Whole(vidW), sHeight |-> sHeight ]
        ELSE LET sWidth == Times(Whole(vidH), screenAspect)
             IN  [ sx |-> Half(Minus(Whole(vidW), sWidth)), sy |-> Whole(0),
                   sWidth |-> sWidth, sHeight |-> Whole(vidH) ]

Capture ==
    /\ capture.pc = "idle"
    /\ capture' = [ capture EXCEPT !.pc = "cropped",
                                   !.crop = captureCrop(capture.vidW, capture.vidH,
                                                        capture.screenW, capture.screenH) ]
    /\ UNCHANGED <<keys, storage, now, lastOp, run, grants, quotaFailed, calls, extraction, wallet, studio>>

(* width and height of camera frames and of containers: every size up to
   MaxSide, and sizes of cameras and screens *)
Sizes == { <<w, h>> : w, h \in 1..MaxSide }
         \cup { <<16, 9>>, <<32, 18>>, <<9, 16>>, <<320, 240>>, <<320, 180>>, <<180, 390>> }

InitCrop ==
    /\ InitPool
    /\ keys["A"] = <<>>
    /\ run = <<>>
    /\ calls = [ c \in Callers |-> IdleCall ]
    /\ extraction = NoExtraction
    /\ wallet = NewWallet(INITIAL_CREDITS)
    /\ studio = NewStudio(<<>>, {})
    /\ \E video \in Sizes, screen \in Sizes : capture = NewCapture(video, screen)

NextCrop == Capture

SpecCrop == InitCrop /\ [][NextCrop]_vars

--------------------------------------------------------------------------
(* Properties of the key pool.  Pool is the KeyState[] of instance A;
   Returned is the state of the key the last getKey() returned. *)

Pool == keys["A"]
PoolKeys == { Pool[n].key : n \in 1..Len(Pool) }
KeyOf(key) == Pool[IndexOf(Pool, key)]
GaveKey == lastOp.op = "getKey" /\ lastOp.mode # "empty"
Returned == KeyOf(lastOp.key)
BeforeDeadline(k) == Truthy(k.halfOpenTestTime) /\ now < k.halfOpenTestTime
WindowRunning(k) == Truthy(k.failedAt) /\ now - k.failedAt < CooldownWindow(k)

(* C1 as stated: after markFailed(k, true) no getKey() call returns k before
   the clock has reached k's recorded retry deadline. *)
C1_ExcludedUntilDeadline ==
    GaveKey => ~(quotaFailed[lastOp.key] /\ BeforeDeadline(Returned))

(* C1 amended: after markFailed(k, true) and until markSuccess(k), a getKey()
   call made before k's recorded retry deadline returns k only through the
   desperation fallback, that is only when no key of the pool is eligible. *)
C1_ExcludedUnlessFallback ==
    (GaveKey /\ quotaFailed[lastOp.key] /\ BeforeDeadline(Returned))
        => lastOp.mode = "fallback"

(* C1 witness: k1 failed on quota, its deadline is ahead, and getKey() has
   just passed it over for k2. *)
C1_Witness ==
    /\ GaveKey /\ lastOp.key = "k2" /\ lastOp.mode = "selected"
    /\ quotaFailed["k1"] /\ BeforeDeadline(KeyOf("k1"))

(* C2 as stated: while a key is HALF_OPEN and no outcome has been reported
   for it, getKey() has returned it at most once. *)
C2_SingleTrial ==
    \A n \in 1..Len(Pool) :
        Pool[n].circuitState = "HALF_OPEN" => grants[Pool[n].key] <= 1

(* C3: immediately after a markFailed(k, q) that brings k's consecutive
   failure count to 5 or more, k's circuit is OPEN, whatever q. *)
C3_OpenAtThreshold ==
    (lastOp.op = "markFailed" /\ lastOp.key \in PoolKeys
       /\ KeyOf(lastOp.key).failCount >= MAX_CONSECUTIVE_FAILURES)
        => KeyOf(lastOp.key).circuitState = "OPEN"

(* C3 witness: the fifth consecutive failure, none of them a quota failure. *)
C3_Witness ==
    /\ lastOp.op = "markFailed" /\ lastOp.key \in PoolKeys
    /\ KeyOf(lastOp.key).failCount = MAX_CONSECUTIVE_FAILURES
    /\ ~quotaFailed[lastOp.key]

(* C4: getKey() returns null exactly when the pool is empty; with a
   non-empty pool it returns one of the configured keys, also when every
   key is on cooldown. *)
C4_NullIffEmpty ==
    lastOp.op = "getKey" =>
        /\ (lastOp.key = "null") <=> (Len(Pool) = 0)
        /\ Len(Pool) > 0 => lastOp.key \in PoolKeys

(* C4 witness: both keys of a pool of two are on cooldown and getKey() has
   returned one of them. *)
C4_Witness ==
    /\ lastOp.op = "getKey" /\ Len(Pool) = 2 /\ lastOp.key \in PoolKeys
    /\ \A n \in 1..Len(Pool) : isOnCooldown(Pool[n], now)

(* C5: when no key is eligible getKey() returns a key whose last failure is
   the oldest of the pool; a pool of one key returns that key right after
   markFailed(k, true). *)
C5_OldestFailure ==
    (lastOp.op = "getKey" /\ lastOp.mode = "fallback") =>
        /\ \A n \in 1..Len(Pool) :
              /\ Truthy(Pool[n].failedAt)
              /\ Returned.failedAt <= Pool[n].failedAt
        /\ Len(Pool) = 1 => lastOp.key = Pool[1].key

(* C5 witness: the fallback has returned the second key of the array, whose
   failure is older than the first key's. *)
C5_Witness ==
    /\ lastOp.op = "getKey" /\ lastOp.mode = "fallback" /\ Len(Pool) = 2
    /\ lastOp.key = Pool[2].key
    /\ Pool[2].failedAt < Pool[1].failedAt

Healthy(k) == k.failCount = 0 /\ k.failedAt = null /\ k.circuitState = "CLOSED"

(* C6 as stated: with N healthy keys, N consecutive getKey() calls with no
   outcome reported in between return N distinct keys. *)
C6_DistinctRotation ==
    ((\A n \in 1..Len(Pool) : Healthy(Pool[n])) /\ Len(run) = Len(Pool))
        => \A a, b \in 1..Len(run) : a # b => run[a] # run[b]

(* C7: every key whose circuit is OPEN has a retry deadline, in memory and
   in the persisted state. *)
C7_OpenHasDeadline ==
    /\ \A n \in 1..Len(Pool) :
          Pool[n].circuitState = "OPEN" => Pool[n].halfOpenTestTime # null
    /\ \A key \in DOMAIN storage :
          storage[key].circuitState = "OPEN" => storage[key].halfOpenTestTime # null

(* C7 witness: a key opened by the failure threshold alone. *)
C7_Witness ==
    \E n \in 1..Len(Pool) :
        /\ Pool[n].circuitState = "OPEN" /\ ~quotaFailed[Pool[n].key]
        /\ Pool[n].key \in DOMAIN storage
        /\ storage[Pool[n].key].circuitState = "OPEN"

ClosedToOpen(n) ==
    /\ Pool[n].circuitState = "CLOSED" /\ Pool[n].circuitState' = "OPEN"
    /\ lastOp'.op = "markFailed" /\ lastOp'.key = Pool[n].key
    /\ \/ Pool[n].failCount' >= MAX_CONSECUTIVE_FAILURES
       \/ Pool[n].isQuotaError'

OpenToHalfOpen(n) ==
    /\ Pool[n].circuitState = "OPEN" /\ Pool[n].circuitState' = "HALF_OPEN"
    /\ Truthy(Pool[n].halfOpenTestTime) /\ now >= Pool[n].halfOpenTestTime

HalfOpenToClosed(n) ==
    /\ Pool[n].circuitState = "HALF_OPEN" /\ Pool[n].circuitState' = "CLOSED"
    /\ lastOp'.op = "markSuccess" /\ lastOp'.key = Pool[n].key

HalfOpenToOpen(n) ==
    /\ Pool[n].circuitState = "HALF_OPEN" /\ Pool[n].circuitState' = "OPEN"
    /\ lastOp'.op = "markFailed" /\ lastOp'.key = Pool[n].key

OpenToClosed(n) ==
    /\ Pool[n].circuitState = "OPEN" /\ Pool[n].circuitState' = "CLOSED"
    /\ lastOp'.op = "markSuccess" /\ lastOp'.key = Pool[n].key

(* C8 as stated: every change of a circuit state is one of CLOSED -> OPEN
   (threshold or quota failure), OPEN -> HALF_OPEN (deadline elapsed),
   HALF_OPEN -> CLOSED (success), HALF_OPEN -> OPEN (failure). *)
C8_FourTransitions ==
    [][ \A n \in 1..Len(Pool) :
          Pool[n].circuitState' # Pool[n].circuitState =>
              \/ ClosedToOpen(n) \/ OpenToHalfOpen(n)
              \/ HalfOpenToClosed(n) \/ HalfOpenToOpen(n) ]_vars

(* C8 amended: every change of a circuit state is one of those four
   transitions or OPEN -> CLOSED, made by a markSuccess reported for a key
   whose circuit is OPEN. *)
C8_FiveTransitions ==
    [][ \A n \in 1..Len(Pool) :
          Pool[n].circuitState' # Pool[n].circuitState =>
              \/ ClosedToOpen(n) \/ OpenToHalfOpen(n)
              \/ HalfOpenToClosed(n) \/ HalfOpenToOpen(n)
              \/ OpenToClosed(n) ]_vars

(* C8 witness: a success has just closed a circuit whose retry deadline is
   still ahead, so the circuit went from OPEN to CLOSED without a trial. *)
C8_Witness ==
    /\ lastOp.op = "markSuccess" /\ lastOp.key \in PoolKeys
    /\ KeyOf(lastOp.key).circuitState = "CLOSED"
    /\ BeforeDeadline(KeyOf(lastOp.key))

(* C9 as stated: getKey() treats no key as eligible while the window of the
   key's last failure is still running. *)
C9_BothGates ==
    (lastOp.op = "getKey" /\ lastOp.mode = "selected") => ~WindowRunning(Returned)

(* C10: markSuccess(k) leaves k with failure count 0, quota flag false, no
   failure time and a CLOSED circuit, raises its success and total-request
   counters by one, persists the state, and leaves k eligible for the next
   getKey(). *)
C10_MarkSuccess ==
    [][ \A n \in 1..Len(Pool) :
          (lastOp'.op = "markSuccess" /\ lastOp'.key = Pool[n].key) =>
              /\ Pool[n].failCount' = 0
              /\ Pool[n].isQuotaError' = FALSE
              /\ Pool[n].failedAt' = null
              /\ Pool[n].circuitState' = "CLOSED"
              /\ Pool[n].successCount' = Pool[n].successCount + 1
              /\ Pool[n].totalRequests' = Pool[n].totalRequests + 1
              /\ storage' = saveState(Pool')
              /\ n \in Candidates(loadState(Pool', storage'), now') ]_vars

(* C10 witness: a success reported for a key that had failed and was
   cooling down. *)
C10_Witness ==
    /\ lastOp.op = "markSuccess" /\ lastOp.key \in PoolKeys
    /\ KeyOf(lastOp.key).successCount = 1
    /\ KeyOf(lastOp.key).totalRequests >= 2
    /\ KeyOf(lastOp.key).halfOpenTestTime # null

(* C11 as stated: getPoolStatus() is read-only; a call changes no field of
   any key of the pool (in particular no circuitState). *)
C11_ReadOnly ==
    [][ lastOp'.op = "getPoolStatus" => keys' = keys ]_vars

(* C12 as stated: every getKey() call that returns a key has stamped that
   key's lastUsed with the current time and has persisted the pool state
   before returning. *)
C12_StampAndPersist ==
    GaveKey => (Returned.lastUsed = now /\ storage = saveState(Pool))

(* C13 as stated: two managers over one storage slot share one rotation
   state; while a quota failure that one tab recorded and persisted for k is
   in force (no success reported for k since, retry deadline ahead), a
   getKey() of the other tab that finds some key eligible does not return k. *)
C13_SharedRotation ==
    \A i \in Instances, j \in Instances :
        (i # j /\ lastOp.op = "getKey" /\ lastOp.inst = j /\ lastOp.mode = "selected")
            => LET n == IndexOf(keys[i], lastOp.key)
               IN  ~( /\ quotaFailed[lastOp.key]
                      /\ keys[i][n].circuitState = "OPEN"
                      /\ Truthy(keys[i][n].halfOpenTestTime)
                      /\ now < keys[i][n].halfOpenTestTime )

(* C39 as stated: a failure persisted for a key is still in the slot, as it
   was, after either manager records an outcome for another key. *)
C39_PersistedFailureKept ==
    [][lastOp'.op \in { "markSuccess", "markFailed" } =>
          \A k \in DOMAIN storage :
              (k # lastOp'.key /\ storage[k].failCount > 0) =>
                  (k \in DOMAIN storage' /\ storage'[k] = storage[k])]_vars

--------------------------------------------------------------------------
(* Properties of callGeminiWithRetry.  Call is the observed invocation. *)

Call == calls[Observed]
Running(call) == call.pc \in {"loop", "operation", "backoff"}
Done(call) == call.pc \in {"returned", "threw"}
Rank(pc) == CASE pc = "loop" -> 2 [] pc = "operation" -> 1 [] OTHER -> 0
Remaining(call) == 3 * (call.MAX_ATTEMPTS - call.attempt) + Rank(call.pc)
AllFailed(call) ==
    \A n \in 1..Len(call.reported) : call.reported[n].op = "markFailed"

(* C14: callGeminiWithRetry terminates, with a value or an error, after
   executing the operation at most max(1, N + 1) times, N being the number
   of configured keys: the operation never runs more often than that, a
   finished call has returned or has thrown an error, and every step of a
   call lowers by one at least a measure that is positive while the call
   runs, so that a call takes at most 3 * MAX_ATTEMPTS + 2 steps. *)
C14_Terminates ==
    /\ Call.ran <= Max(1, Len(Pool) + 1)
    /\ Call.MAX_ATTEMPTS <= Max(1, Len(Pool) + 1)
    /\ Running(Call) => Remaining(Call) > 0
    /\ (Running(Call) \/ Done(Call)) =>
          Call.steps + Remaining(Call) <= 3 * Call.MAX_ATTEMPTS + 2
    /\ (Call.pc = "threw") = (Call.thrown.kind # "none")

(* C14 witness: a call over two keys has used all three attempts and has
   thrown. *)
C14_Witness ==
    /\ Call.pc = "threw" /\ Call.thrown.kind = "operation"
    /\ Len(Pool) = 2 /\ Call.ran = 3

(* C15: when getKey() returns no key at the start of an attempt, the call
   fails at once with the no-credentials error: the operation has not run
   in that attempt, no outcome has been reported for it, and the call has
   stopped at that attempt. *)
C15_NoKeyFailsFast ==
    /\ (lastOp.op = "getKey" /\ lastOp.key = "null") => Call.thrown.kind = "noKeys"
    /\ (Call.thrown.kind = "noKeys") =>
          /\ Call.pc = "threw"
          /\ Call.attempt = Call.thrown.attempt
          /\ Call.ran = Call.attempt
          /\ Len(Call.tried) = Call.attempt
          /\ Len(Call.reported) = Call.attempt

(* C15 witness: a call over the empty pool has thrown the no-credentials
   error. *)
C15_Witness ==
    /\ lastOp.op = "getKey" /\ lastOp.key = "null"
    /\ Call.pc = "threw" /\ Call.thrown.kind = "noKeys"

(* C16: when every attempt of a call has failed, the error the call throws
   is the error object the operation rejected with in the last attempt
   (attempt MAX_ATTEMPTS - 1), and markFailed has been reported for the key
   of every attempt, the last one included. *)
C16_LastErrorRethrown ==
    (Call.pc = "threw" /\ Call.thrown.kind # "noKeys") =>
        /\ Call.thrown.kind = "operation"
        /\ Call.thrown.attempt = Call.MAX_ATTEMPTS - 1
        /\ Len(Call.tried) = Call.MAX_ATTEMPTS
        /\ Len(Call.reported) = Call.MAX_ATTEMPTS
        /\ Call.thrown.error = Call.reported[Call.MAX_ATTEMPTS].error
        /\ \A n \in 1..Call.MAX_ATTEMPTS :
              /\ Call.reported[n].op = "markFailed"
              /\ Call.reported[n].key = Call.tried[n].key

(* C16 witness: three failed attempts over two keys, the last error being
   another one than the first. *)
C16_Witness ==
    /\ Call.pc = "threw" /\ Call.thrown.kind = "operation"
    /\ Len(Call.reported) = 3
    /\ Call.reported[1].error # Call.reported[3].error
    /\ Call.reported[2].error # Call.reported[3].error

(* C17: every attempt reports exactly one outcome, for the key that attempt
   obtained from getKey(), before the next key is obtained: the reports
   made so far match, one to one and key by key, the attempts made so far
   (all of them but the one whose operation is still awaited); a success
   is reported only as the last outcome of a call that has returned, which
   obtains no further key; every other outcome is a markFailed. *)
C17_OneOutcomePerAttempt ==
    /\ Len(Call.reported) = Len(Call.tried) - (IF Call.pc = "operation" THEN 1 ELSE 0)
    /\ \A n \in 1..Len(Call.reported) :
          /\ Call.reported[n].key = Call.tried[n].key
          /\ (Call.reported[n].op = "markSuccess") =
                (Call.pc = "returned" /\ n = Len(Call.reported))
          /\ Call.reported[n].op \in {"markSuccess", "markFailed"}
    /\ (Call.pc = "returned") => Call.reported # <<>>
    /\ (Call.pc = "operation") => Call.key = Call.tried[Len(Call.tried)].key

(* C17 witness: a failure on one key, then a success on another. *)
C17_Witness ==
    /\ Call.pc = "returned" /\ Len(Call.reported) = 2
    /\ Call.reported[1].op = "markFailed"
    /\ Call.reported[2].op = "markSuccess"
    /\ Call.reported[1].key # Call.reported[2].key

(* a quota-type error: HTTP 429, or a quota / limit / exhausted marker in
   its message *)
QuotaType(error) ==
    \/ error.status = 429
    \/ \E n \in 1..Len(error.message) : ToLowerCase(error.message[n]) \in QuotaMarkers

(* the failure reported in attempt n of the call is classified as the
   error was, and the next attempt follows at once (quota) or not before
   the backoff has elapsed (any other error) *)
ReportedAndPaced(call, n) ==
    LET r == call.reported[n]
    IN  /\ r.isQuota = QuotaType(r.error)
        /\ n < Len(call.tried) =>
              IF QuotaType(r.error)
              THEN call.tried[n + 1].at = r.at
              ELSE call.tried[n + 1].at >= r.at + BACKOFF_MS

(* C18 as stated: a quota-type failure of an attempt that is not the last
   is reported as markFailed(k, true), and the next attempt starts without
   backoff and uses a key different from k; any other failure is reported
   with isQuota = false and is followed by the 1 s backoff. *)
C18_NextKeyDiffers ==
    \A n \in 1..Len(Call.reported) :
        (Call.reported[n].op = "markFailed") =>
            /\ ReportedAndPaced(Call, n)
            /\ (n < Len(Call.tried) /\ Call.reported[n].isQuota) =>
                  Call.tried[n + 1].key # Call.reported[n].key

(* C18 amended: as above, but the next attempt uses a key different from k
   whenever getKey() finds an eligible key; when it finds none (always so
   in a pool of one key), the desperation fallback chooses and may return
   k again. *)
C18_NextKeyDiffersIfEligible ==
    \A n \in 1..Len(Call.reported) :
        (Call.reported[n].op = "markFailed") =>
            /\ ReportedAndPaced(Call, n)
            /\ (n < Len(Call.tried) /\ Call.reported[n].isQuota
                   /\ Call.tried[n + 1].mode = "selected") =>
                  Call.tried[n + 1].key # Call.reported[n].key

(* C18 witness: in one call, a quota failure recognised by its message only
   was followed at once by an attempt on the other key, and a failure of
   another kind by the backoff. *)
C18_Witness ==
    /\ Len(Call.tried) = 3
    /\ Call.reported[1].isQuota /\ Call.reported[1].error.status # 429
    /\ Call.tried[2].mode = "selected"
    /\ Call.tried[2].key # Call.tried[1].key
    /\ Call.tried[2].at = Call.reported[1].at
    /\ ~Call.reported[2].isQuota
    /\ Call.tried[3].at >= Call.reported[2].at + BACKOFF_MS

(* C19 as stated: in a call over N keys in which every attempt fails, the
   first N attempts use N distinct keys (only the extra attempt reuses
   one). *)
C19_EveryKeyTried ==
    (Call.pc = "threw" /\ Call.thrown.kind = "operation") =>
        \A m \in 1..Len(Pool), n \in 1..Len(Pool) :
            m < n => Call.tried[m].key # Call.tried[n].key

--------------------------------------------------------------------------
(* Properties of extractImageFromResponse.  Response is the response handed
   to it, Result what the call gave. *)

Response == extraction.response
Result == extraction.result
NotThere(x) == x \in {absent, ""}
HasBlockReason == ~NotThere(Response.blockReason)
HasFirstCandidate == Response.candidates # <<>>
FirstCandidate == Response.candidates[1]
FinishedNormally == NotThere(FirstCandidate.finishReason) \/ FirstCandidate.finishReason = "STOP"
ImageParts ==
    { n \in 1..Len(FirstCandidate.parts) :
        FirstCandidate.parts[n].inline /\ ~NotThere(FirstCandidate.parts[n].data) }
DataUriOf(part) ==
    << "data:", (IF NotThere(part.mimeType) THEN "image/png" ELSE part.mimeType),
       ";base64,", part.data >>

(* C20: extractImageFromResponse returns an image, the data URI of the first
   part that carries inline image data (with that part's mime type,
   image/png when it has none), exactly when the response has no block
   reason, has a first candidate whose finish reason is absent or STOP, and
   has such a part; otherwise it throws, and the failures are told apart
   and tested in the order block reason, finish reason, missing image: a
   blocked response is rejected as blocked, and a response stopped for
   another reason than STOP as stopped, whatever image data they carry. *)
C20_ImageOrError ==
    (Result # NotCalled) =>
        /\ Result.kind \in {"returned", "threw"}
        /\ (Result.kind = "returned") =
              ( /\ ~HasBlockReason /\ HasFirstCandidate
                /\ FinishedNormally /\ ImageParts # {} )
        /\ (Result.kind = "returned") =>
              \E n \in ImageParts :
                  /\ \A m \in ImageParts : n <= m
                  /\ Result.text = DataUriOf(FirstCandidate.parts[n])
        /\ HasBlockReason =>
              Result = Throws(<<"Generation blocked: ", Response.blockReason>>)
        /\ (~HasBlockReason /\ HasFirstCandidate /\ ~FinishedNormally) =>
              Result = Throws(<<"Generation stopped: ", FirstCandidate.finishReason>>)
        /\ (~HasBlockReason /\ HasFirstCandidate /\ FinishedNormally /\ ImageParts = {}) =>
              Result = Throws(<<"AI returned text/metadata but no image data.">>)

(* C20 witness: a blocked response whose first candidate finished with STOP
   and carries image data has been rejected as blocked. *)
C20_Witness ==
    /\ Result.kind = "threw" /\ HasBlockReason
    /\ HasFirstCandidate /\ FinishedNormally /\ ImageParts # {}

--------------------------------------------------------------------------
(* Properties of the credit wallet *)

Operation(o) == wallet.ops[o]

Alone(o) == \A p \in Ops \ {o} : Operation(p).pc = "idle"

(* C21: an AI operation that debited one credit and then failed leaves,
   once its failure has been handled and no other operation has touched the
   wallet, the credit balance it found when it started. *)
C21_RefundRestoresBalance ==
    \A o \in Ops :
        Operation(o).pc = "failed" /\ Alone(o) => wallet.credits = Operation(o).seen

(* C22: on every failure path after the debit, the unmounted screen
   included, the handler gives the credit back exactly once. *)
C22_RefundedExactlyOnce ==
    \A o \in Ops : Operation(o).pc = "failed" => Operation(o).refunds = 1

--------------------------------------------------------------------------
(* Properties of the history stack *)

History == studio.history

Cursor == studio.historyIndex

Live == studio.layers

(* C23: the history stack holds between 1 and 20 snapshots, the cursor is
   an index into it, canUndo is true exactly when the cursor is above 0 and
   canRedo exactly when it is below the last index. *)
C23_HistoryWellFormed ==
    /\ Len(History) >= 1
    /\ Len(History) <= 20
    /\ Cursor \in 0..(Len(History) - 1)
    /\ canUndo(studio) <=> Cursor > 0
    /\ canRedo(studio) <=> Cursor < Len(History) - 1

(* a full stack with the cursor inside it *)
C23_Witness ==
    /\ Len(History) = 20
    /\ canUndo(studio)
    /\ canRedo(studio)

(* C24: after commit(L1); commit(L2); undo() the live layer list is L1, and
   after a following redo() it is L2. *)
C24_UndoRedoRoundTrip ==
    /\ Len(run) = 3 => Live = run[1].layers
    /\ Len(run) = 4 => Live = run[2].layers

(* the round trip made on a full stack, between two different lists *)
C24_Witness ==
    /\ Len(run) = 4
    /\ run[1].layers # run[2].layers
    /\ Len(History) = 20

(* C25: commit(snapshot) keeps the entries up to the cursor, appends the
   snapshot and leaves the cursor on it, so redo is unavailable; when that
   makes 21 entries the oldest one, and only it, is dropped. *)
C25_CommitTruncatesAndCaps ==
    [][ lastOp'.op = "commit" =>
          LET kept == SubSeq(History, 1, Cursor + 1)
              snapshot == run'[Len(run')].layers
              appended == Append(kept, snapshot)
          IN  /\ studio'.historyIndex = Len(studio'.history) - 1
              /\ ~canRedo(studio')
              /\ studio'.history = IF Len(appended) > 20 THEN Tail(appended) ELSE appended
      ]_vars

(* a commit on a full stack with the cursor at its end *)
C25_Witness ==
    /\ lastOp.op = "commit"
    /\ lastOp.mode = "evicted"
    /\ Len(History) = 20

--------------------------------------------------------------------------
(* Properties of the Studio session *)

Selection == studio.activeLayerId

Committing == { "commit", "addLayer", "commitUpdate", "removeLayer", "reorderLayer",
                "clearCanvas", "handleUp" }

(* C26: updateLayer(id, fields) leaves the history stack and the cursor as
   they were, for every id and every fields, the empty object included; the
   stack changes only in a call that commits. *)
C26_UpdateKeepsHistory ==
    [][ /\ lastOp'.op = "updateLayer" =>
              /\ studio'.history = History
              /\ studio'.historyIndex = Cursor
        /\ studio'.history # History => lastOp'.op \in Committing
      ]_vars

(* an update that changed a layer of a session with history, and left the
   live list apart from the snapshot under the cursor *)
C26_Witness ==
    /\ lastOp.op = "updateLayer"
    /\ lastOp.mode = "known"
    /\ Len(History) > 1
    /\ Live # History[Cursor + 1]

(* C27: removeLayer, updateLayer, commitUpdate and reorderLayer called with
   an id of no layer change nothing: live list, history stack, cursor and
   selection stay as they were. *)
C27_UnknownIdIsNoOp ==
    [][ lastOp'.mode = "unknown" =>
              /\ studio'.layers = Live
              /\ studio'.history = History
              /\ studio'.historyIndex = Cursor
              /\ studio'.activeLayerId = Selection
      ]_vars

(* C28: activeLayerId is null or the uid of a layer of the live list. *)
C28_SelectionExists == Selection = NoLayer \/ some(Live, Selection)

(* C29: once the handlers and the reconciliation they trigger have run, no
   live layer references an asset that is not in the asset set, also after
   an undo or a redo restored a snapshot with such a layer. *)
C29_NoOrphanLayers == \A n \in DOMAIN Live : Live[n].assetId \in studio.assets

(* an undo or redo that restored a snapshot holding a layer of a deleted
   asset *)
C29_Witness ==
    /\ lastOp.op \in { "undo", "redo" }
    /\ lastOp.mode = "moved"
    /\ \E n \in DOMAIN History[Cursor + 1] : History[Cursor + 1][n].assetId \notin studio.assets

--------------------------------------------------------------------------
(* Properties of the drag *)

Gesture == studio.gesture

Within(v) == IF v < 0 THEN 0 ELSE IF v > 100 THEN 100 ELSE v

(* the layer l of the press moved by the pointer's displacement from the
   press point, in percent of the canvas *)
Dragged(l, g, x, y) ==
    /\ \E dx \in -300..300 :
          /\ dx * CanvasRect.width = 100 * (x - g.startX)
          /\ l.x = Within(g.initialLayerX + dx)
    /\ \E dy \in -300..300 :
          /\ dy * CanvasRect.height = 100 * (y - g.startY)
          /\ l.y = Within(g.initialLayerY + dy)

(* C30: after every move event of a drag the dragged layer is at its
   position of the press plus the pointer's displacement from the press
   point in percent of the canvas, clamped to [0,100], every other field and
   every other layer as before; the release of a drag that moved appends
   exactly one history entry, the live list. *)
C30_DragFollowsPointer ==
    [][ /\ lastOp'.op = "handleMove" =>
              /\ Len(studio'.layers) = Len(Live)
              /\ \A n \in DOMAIN Live :
                    IF Live[n].uid = Gesture.layerId THEN
                        /\ Dragged(studio'.layers[n], Gesture,
                                   studio'.gesture.lastX, studio'.gesture.lastY)
                        /\ studio'.layers[n] = [ Live[n] EXCEPT !.x = studio'.layers[n].x,
                                                                !.y = studio'.layers[n].y ]
                    ELSE studio'.layers[n] = Live[n]
        /\ lastOp'.op = "handleUp" /\ lastOp'.mode = "moved" =>
              /\ studio'.history = Append(SubSeq(History, 1, Cursor + 1), Live)
              /\ studio'.historyIndex = Cursor + 1
              /\ studio'.layers = Live
      ]_vars

(* Scenario D: a new layer at (50,50) dragged rightward by 10% of the
   canvas width and released *)
C30_Witness ==
    /\ lastOp.op = "handleUp"
    /\ lastOp.mode = "moved"
    /\ Len(History) = 3
    /\ History[2] = <<NewLayer(lastOp.key, History[2][1].assetId)>>
    /\ Live = << [ History[2][1] EXCEPT !.x = 60 ] >>
    /\ History[3] = Live

--------------------------------------------------------------------------
(* Properties of the gesture sessions. *)

Released == lastOp'.op = "handleUp"

(* C31 as stated: the release of a session appends the layer list to the
   history exactly when an event of the session changed a field of a layer;
   a session that changed nothing leaves the history as it was. *)
C31_CommitsIffMutated ==
    [][Released =>
          /\ studio.gesture.mutated =>
                 /\ History' = Append(SubSeq(History, 1, Cursor + 1), Live)
                 /\ Cursor' = Cursor + 1
          /\ ~studio.gesture.mutated =>
                 /\ History' = History
                 /\ Cursor' = Cursor]_vars

(* C32 as stated: a move or a release without a session, and a press, a
   move or a notch while processing is on, change neither the layers, the
   selection nor the history; and while processing is on neither a release
   nor the timer of the wheel commits to the history. *)
GestureEvents == { "handlePointerDown", "handleMove", "handleUp", "handleWheel" }

C32_SuppressedWhileProcessing ==
    [][/\ lastOp'.op \in GestureEvents /\ lastOp'.mode = "ignored" =>
              /\ Live' = Live
              /\ Selection' = Selection
              /\ History' = History
              /\ Cursor' = Cursor
       /\ studio.isProcessing /\ lastOp'.op \in { "handleUp", "wheelCommit" } =>
              /\ History' = History
              /\ Cursor' = Cursor]_vars

(* C33: a notch on the selected layer moves its scale by one tenth in the
   direction of the sign of deltaY, clamped to [0.1, 5], and leaves the
   history alone; the history changes only when the timer fires, which it
   does 500 ms after the latest notch, appending the live list with its
   final scale; time never passes the moment a pending timer is due. *)
Notched == lastOp'.op = "handleWheel" /\ lastOp'.mode # "ignored"

Turn == CASE lastOp'.mode = "in" -> 1 [] lastOp'.mode = "out" -> -1 [] OTHER -> 0

Scaled(l, amount) ==
    [ l EXCEPT !.scale = IF l.scale + amount > 50 THEN 50
                         ELSE IF l.scale + amount < 1 THEN 1 ELSE l.scale + amount ]

C33_WheelBurstCommitsOnce ==
    [][/\ Notched =>
              /\ History' = History
              /\ Cursor' = Cursor
              /\ Len(Live') = Len(Live)
              /\ \A n \in DOMAIN Live :
                     Live'[n] = IF Live[n].uid = Selection THEN Scaled(Live[n], Turn) ELSE Live[n]
       /\ History' # History => lastOp'.op = "wheelCommit"
       /\ lastOp'.op = "wheelCommit" =>
              /\ now = studio.wheel.notchedAt + 500
              /\ History' = Append(SubSeq(History, 1, Cursor + 1), Live)
              /\ Cursor' = Cursor + 1
              /\ Live' = Live
              /\ ~studio'.wheel.pending
       /\ studio.wheel.pending => now' <= studio.wheel.notchedAt + 500]_vars

(* two notches 250 ms apart on a draft layer of scale 1 (ten tenths), one
   commit 500 ms after the second, holding scale 1.2 *)
C33_Witness ==
    /\ lastOp.op = "wheelCommit"
    /\ now = StartTime + 750
    /\ History = << << NewLayer("u1", "a1") >>,
                    << [ NewLayer("u1", "a1") EXCEPT !.scale = 12 ] >> >>
    /\ Cursor = 1
    /\ Live = History[2]

(* a notch away from the centre at the upper clamp *)
C33_WitnessClamped ==
    /\ lastOp.op = "handleWheel" /\ lastOp.mode = "in"
    /\ Live[1].scale = 50
    /\ History = << << [ NewLayer("u1", "a1") EXCEPT !.scale = 50 ] >> >>

(* C34 as stated: every layer of the live list lies on the canvas, with a
   scale between 0.1 and 5 and a rotation from 0 up to but excluding 360. *)
C34_LayersInRange ==
    \A n \in DOMAIN Live :
        /\ 0 <= Live[n].x /\ Live[n].x <= 100
        /\ 0 <= Live[n].y /\ Live[n].y <= 100
        /\ 1 <= Live[n].scale /\ Live[n].scale <= 50
        /\ 0 <= Live[n].rotation /\ Live[n].rotation < 360

(* C38 as stated: the release of a session commits the live list when the
   session, or a session it replaced before that one was released, changed a
   field of a layer. *)
C38_ReplacedSessionCommitted ==
    [][Released /\ (studio.gesture.mutated \/ studio.gesture.carried) =>
          /\ History' = Append(SubSeq(History, 1, Cursor + 1), Live)
          /\ Cursor' = Cursor + 1]_vars

(* C36 as stated: when the timer of the wheel fires, every entry of the
   history up to the cursor, those committed since the notch included, is
   still in the history, and the live list, which holds what was changed
   since the notch, stays as it is. *)
C36_InterveningCommitKept ==
    [][lastOp'.op = "wheelCommit" =>
          /\ Len(History') > Cursor + 1
          /\ SubSeq(History', 1, Cursor + 1) = SubSeq(History, 1, Cursor + 1)
          /\ Live' = Live]_vars

(* C37 as stated: wherever undo is available, undo followed at once by redo
   gives back the live list as it was. *)
C37_UndoRedoKeepsLive ==
    canUndo(studio) => reconcile(redo(reconcile(undo(studio)))).layers = Live

--------------------------------------------------------------------------
(* Properties of the image operations under callGeminiWithRetry. *)

Charged(call, key) ==
    Cardinality({ n \in 1..Len(call.reported) : call.reported[n].key = key })

(* C40 as stated: every error the operation rejects with is reported as a
   failure that is not of the quota type, and the next attempt follows the
   1 s backoff. *)
C40_EveryErrorNonQuota ==
    \A n \in 1..Len(Call.reported) :
        (Call.reported[n].op = "markFailed") =>
            /\ ~Call.reported[n].isQuota
            /\ n < Len(Call.tried) =>
                   Call.tried[n + 1].at >= Call.reported[n].at + BACKOFF_MS

(* C40 amended: every error the operation rejects with is reported by
   markFailed for the key of its attempt, as a quota failure when it has
   status 429 or a quota marker and as another failure otherwise; the
   errors of the extraction are never quota failures; the next attempt
   follows the 1 s backoff, or follows at once after a quota failure; a
   call makes at most N + 1 attempts, and while all of them have failed
   the failure count of each key is at least the number of attempts the
   call has charged to it. *)
C40_ValidationErrorsCharged ==
    /\ \A n \in 1..Len(Call.reported) :
          (Call.reported[n].op = "markFailed") =>
              /\ Call.reported[n].key = Call.tried[n].key
              /\ ReportedAndPaced(Call, n)
              /\ Call.reported[n].error \in ValidationErrors => ~Call.reported[n].isQuota
    /\ Call.pc # "operation" => Len(Call.reported) = Len(Call.tried)
    /\ Call.ran <= Len(Pool) + 1
    /\ AllFailed(Call) =>
          \A key \in PoolKeys : KeyOf(key).failCount >= Charged(Call, key)

(* C40 witness: over two keys, three attempts have failed on errors of the
   extraction, each after the backoff, both keys were charged, and the call
   has thrown the last of them. *)
C40_Witness ==
    /\ Call.pc = "threw" /\ Len(Call.reported) = 3 /\ Len(Pool) = 2
    /\ \A n \in 1..3 : Call.reported[n].error \in ValidationErrors /\ ~Call.reported[n].isQuota
    /\ \A n \in 1..2 : Call.tried[n + 1].at >= Call.reported[n].at + BACKOFF_MS
    /\ \A key \in PoolKeys : Charged(Call, key) >= 1 /\ KeyOf(key).failCount >= 1
    /\ Call.thrown.error = Call.reported[3].error

--------------------------------------------------------------------------
(* Properties of the capture crop. *)

Crop == capture.crop

Cropped == capture.pc = "cropped"

ViewportAspect == Ratio(capture.screenW, capture.screenH)

SourceAspect == Ratio(capture.vidW, capture.vidH)

NotBelow(a, b) == ~Greater(b, a)

(* C35: with a viewport wider than the source the crop takes the full width,
   a height of the source width over the viewport aspect and an offset of
   half the height left over; otherwise the full height, a width of the
   source height times the viewport aspect and an offset of half the width
   left over.  The crop lies inside the frame, is centred and has the aspect
   of the viewport; a 16:9 viewport over a 4:3 frame keeps 9/16 of the width
   as height. *)
C35_CropMatchesViewport ==
    Cropped =>
        /\ Greater(ViewportAspect, SourceAspect) =>
               /\ Crop.sx = Whole(0)
               /\ Crop.sWidth = Whole(capture.vidW)
               /\ Same(Times(Crop.sHeight, ViewportAspect), Whole(capture.vidW))
               /\ Same(Plus(Crop.sy, Crop.sy), Minus(Whole(capture.vidH), Crop.sHeight))
        /\ ~Greater(ViewportAspect, SourceAspect) =>
               /\ Crop.sy = Whole(0)
               /\ Crop.sHeight = Whole(capture.vidH)
               /\ Same(Crop.sWidth, Times(Whole(capture.vidH), ViewportAspect))
               /\ Same(Plus(Crop.sx, Crop.sx), Minus(Whole(capture.vidW), Crop.sWidth))
        /\ NotBelow(Crop.sx, Whole(0)) /\ NotBelow(Crop.sy, Whole(0))
        /\ Greater(Crop.sWidth, Whole(0)) /\ Greater(Crop.sHeight, Whole(0))
        /\ NotBelow(Whole(capture.vidW), Plus(Crop.sx, Crop.sWidth))
        /\ NotBelow(Whole(capture.vidH), Plus(Crop.sy, Crop.sHeight))
        /\ Same(Plus(Plus(Crop.sx, Crop.sWidth), Crop.sx), Whole(capture.vidW))
        /\ Same(Plus(Plus(Crop.sy, Crop.sHeight), Crop.sy), Whole(capture.vidH))
        /\ Same(Over(Crop.sWidth, Crop.sHeight), ViewportAspect)
        /\ Same(ViewportAspect, Ratio(16, 9)) /\ Same(SourceAspect, Ratio(4, 3)) =>
               /\ Same(Crop.sHeight, Times(Whole(capture.vidW), Ratio(9, 16)))
               /\ Greater(Crop.sy, Whole(0))
               /\ Crop.sx = Whole(0)

(* a 320 by 240 frame under a 16 by 9 viewport: the crop is 180 high and
   starts 30 below the top *)
C35_Witness ==
    /\ Cropped
    /\ capture.vidW = 320 /\ capture.vidH = 240
    /\ capture.screenW = 16 /\ capture.screenH = 9
    /\ Same(Crop.sHeight, Whole(180))
    /\ Same(Crop.sy, Whole(30))

====
